---- MODULE Spec2Model ----
(***************************************************************************)
(* Candidate pre-selection of the heavy-flavour skim creator               *)
(* (PWGHF/TableProducer/HFTrackIndexSkimsCreator.cxx).                     *)
(*                                                                         *)
(* Floating-point quantities are modelled as integers in fixed units:      *)
(* momenta, masses and transverse momenta in units of 0.1 GeV, so that the *)
(* default pTTolerance of 0.1 GeV/c is 1.  Square roots round down.         *)
(***************************************************************************)
EXTENDS Integers, Sequences, FiniteSets, TLC

(***************************************************************************)
(* Bounds of the model.                                                    *)
(***************************************************************************)
\* largest number of selected tracks of the processed collision
MaxTracks == 3
\* largest bin edge drawn for the stand-alone pT-bin lookup
MaxEdge == 4
\* number of collisions for which process() is called
MaxCollisions == 2
\* a collision of at most this many tracks is followed by another one with
\* the same tracks
MaxTracksRepeat == 2
\* largest number of tracks and of V0s handed to the cascade creator
MaxBach == 2
MaxV0 == 2
\* number of evaluations of is2ProngPreselected that may overlap
NWorkers == 2
\* largest number of tracks handed to the single-track selection
MaxSelTracks == 2
\* largest number of tracks and of J/psi candidates handed to the X creator
MaxXTracks == 3
MaxJpsi == 1
\* getCompatibleBCs: largest number of rows of the BC table, largest globalBC,
\* largest deltaBC and largest shift of the collision time in bunch crossings,
\* and the number of bits of the model's words (64 in the code)
MaxBCs == 3
MaxGlobalBC == 4
MaxDeltaBC == 2
WordBits == 8
\* chargedSpectra: largest number of processMC calls of a run
MaxMcCollisions == 2
\* femtoDreamProducerTask: largest number of process calls of a run, of
\* tracks and of V0s of a collision
MaxFemtoCollisions == 2
MaxFemtoTracks == 2
MaxFemtoV0s == 1

(***************************************************************************)
(* Program constants.                                                      *)
(***************************************************************************)
n2ProngDecays == 3
n3ProngDecays == 4
nCuts2Prong == 4
nCuts3Prong == 4
pTTolerance == 1
massPi == 1
massK == 5
massProton == 9
massElectron == 0
massMuon == 1
massP == 9
massK0s == 5
massLc == 23
\* enum CandidateType
Cand2Prong == 0
Cand3Prong == 1
CandV0bachelor == 2
NCandidateTypes == 3

(***************************************************************************)
(* Bit macros (ROOT's BIT, TESTBIT, CLRBIT) on non-negative integers.      *)
(***************************************************************************)
BIT(n) == 2 ^ n

TESTBIT(x, n) == (x \div BIT(n)) % 2 = 1

\* faulty variant of CLRBIT: flips the bit instead of clearing it
CLRBITFlips(x, n) == IF TESTBIT(x, n) THEN x - BIT(n) ELSE x + BIT(n)

\* faulty variant of CLRBIT: the bit is left as it is
CLRBITKeeps(x, n) == x

CLRBIT(x, n) == IF TESTBIT(x, n) THEN x - BIT(n) ELSE x

(***************************************************************************)
(* RecoDecay kinematics.  A momentum is <<px, py, pz>>.                    *)
(***************************************************************************)
Sqrt(n) == CHOOSE r \in 0..n : r * r <= n /\ (r + 1) * (r + 1) > n

RECURSIVE sumOfVec(_, _)
sumOfVec(vecs, c) ==
  IF vecs = <<>> THEN 0 ELSE Head(vecs)[c] + sumOfVec(Tail(vecs), c)

\* transverse momentum of the vector sum of the momenta
Pt(vecs) == Sqrt(sumOfVec(vecs, 1) ^ 2 + sumOfVec(vecs, 2) ^ 2)

\* squared momentum of one vector
P2(v) == v[1] ^ 2 + v[2] ^ 2 + v[3] ^ 2

\* energy of a particle of momentum v and mass m
E(v, m) == Sqrt(P2(v) + m ^ 2)

RECURSIVE sumOfE(_, _)
sumOfE(vecs, masses) ==
  IF vecs = <<>> THEN 0
  ELSE E(Head(vecs), Head(masses)) + sumOfE(Tail(vecs), Tail(masses))

\* squared invariant mass of the daughters under one mass assignment
M2(vecs, masses) ==
  sumOfE(vecs, masses) ^ 2
    - (sumOfVec(vecs, 1) ^ 2 + sumOfVec(vecs, 2) ^ 2 + sumOfVec(vecs, 3) ^ 2)

(***************************************************************************)
(* findBin: index of the pT bin of value in the edge vector bins, or -1.   *)
(* upper_bound is the (0-based) position of the first edge greater than    *)
(* value, Len(bins) when there is none.                                    *)
(***************************************************************************)
\* faulty variant of upper_bound: position of the first edge not less than
\* value (std::lower_bound)
lower_bound(bins, value) ==
  IF \E k \in 1..Len(bins) : bins[k] >= value
  THEN (CHOOSE k \in 1..Len(bins) :
          bins[k] >= value /\ \A j \in 1..(k - 1) : ~(bins[j] >= value)) - 1
  ELSE Len(bins)

upper_bound(bins, value) ==
  IF \E k \in 1..Len(bins) : bins[k] > value
  THEN (CHOOSE k \in 1..Len(bins) :
          bins[k] > value /\ \A j \in 1..(k - 1) : ~(bins[j] > value)) - 1
  ELSE Len(bins)

findBin(bins, value) ==
  IF value < bins[1] THEN -1
  ELSE IF value >= bins[Len(bins)] THEN -1
  ELSE upper_bound(bins, value) - 1

(***************************************************************************)
(* LabeledArray: colmap maps a cut name to its column, rows holds one row  *)
(* of thresholds per pT bin.  get(bin, column) reads one threshold.        *)
(***************************************************************************)
get(table, bin, col) == table.rows[bin + 1][col]

find(table, name) == table.colmap[name]

(***************************************************************************)
(* Configuration drawn for a run: debug, do3prong and one of the cut       *)
(* configurations below (columns massMin, massMax, cosp, d0d0 for 2-prong  *)
(* decays and massMin, massMax, cosp, decL for 3-prong decays).            *)
(***************************************************************************)
colmap2Prong == [massMin |-> 1, massMax |-> 2, cosp |-> 3, d0d0 |-> 4]

colmap3Prong == [massMin |-> 1, massMax |-> 2, cosp |-> 3, decL |-> 4]

LabeledArray(colmap, rows) == [colmap |-> colmap, rows |-> rows]

\* index 0: D0ToPiK, 1: JpsiToEE, 2: JpsiToMuMu
CutConfigs2Prong ==
  << [cuts |-> [i \in 0..(n2ProngDecays - 1) |->
                  CASE i = 0 -> LabeledArray(colmap2Prong, << <<6, 8, 4, 1>>, <<6, 8, 4, 2>> >>)
                    [] i = 1 -> LabeledArray(colmap2Prong, << <<-1, 2, 5, 10>> >>)
                    [] i = 2 -> LabeledArray(colmap2Prong, << <<2, 5, 4, 10>>, <<2, 5, 4, 10>> >>)],
      bins |-> [i \in 0..(n2ProngDecays - 1) |->
                  CASE i = 0 -> <<0, 5, 10>>
                    [] i = 1 -> <<3, 7>>
                    [] i = 2 -> <<0, 4, 8>>]],
     [cuts |-> [i \in 0..(n2ProngDecays - 1) |->
                  CASE i = 0 -> LabeledArray(colmap2Prong, << <<6, 0, 4, 2>>, <<6, 0, 4, 2>> >>)
                    [] i = 1 -> LabeledArray(colmap2Prong, << <<0, 5, 5, 10>> >>)
                    [] i = 2 -> LabeledArray(colmap2Prong, << <<-1, 0, 4, 0>>, <<2, 5, 4, 0>> >>)],
      bins |-> [i \in 0..(n2ProngDecays - 1) |->
                  CASE i = 0 -> <<0, 5, 10>>
                    [] i = 1 -> <<0, 8>>
                    [] i = 2 -> <<0, 4, 8>>]] >>

\* index 0: DPlusToPiKPi, 1: LcToPKPi, 2: DsToPiKK, 3: XicToPKPi
CutConfigs3Prong ==
  << [cuts |-> [i \in 0..(n3ProngDecays - 1) |->
                  CASE i = 0 -> LabeledArray(colmap3Prong, << <<6, 10, 4, 2>>, <<6, 10, 4, 2>> >>)
                    [] i = 1 -> LabeledArray(colmap3Prong, << <<15, 17, 4, 2>> >>)
                    [] i = 2 -> LabeledArray(colmap3Prong, << <<10, 12, 5, 2>> >>)
                    [] i = 3 -> LabeledArray(colmap3Prong, << <<-1, 3, 4, 3>> >>)],
      bins |-> [i \in 0..(n3ProngDecays - 1) |->
                  CASE i = 0 -> <<0, 6, 12>>
                    [] i = 1 -> <<0, 8>>
                    [] i = 2 -> <<0, 12>>
                    [] i = 3 -> <<4, 7>>]],
     [cuts |-> [i \in 0..(n3ProngDecays - 1) |->
                  CASE i = 0 -> LabeledArray(colmap3Prong, << <<6, 0, 4, 2>>, <<6, 10, 4, 1>> >>)
                    [] i = 1 -> LabeledArray(colmap3Prong, << <<15, 17, 4, 2>> >>)
                    [] i = 2 -> LabeledArray(colmap3Prong, << <<10, 12, 4, 1>> >>)
                    [] i = 3 -> LabeledArray(colmap3Prong, << <<14, 17, 4, 1>> >>)],
      bins |-> [i \in 0..(n3ProngDecays - 1) |->
                  CASE i = 0 -> <<0, 6, 12>>
                    [] i = 1 -> <<0, 8>>
                    [] i = 2 -> <<0, 12>>
                    [] i = 3 -> <<4, 7>>]] >>

(***************************************************************************)
(* Input tracks of the collision.  signed1Pt carries the charge sign,      *)
(* isSelProng the single-track selection bits.                             *)
(***************************************************************************)
Track(sgn, sel, px, py, pz, dca) ==
  [signed1Pt |-> sgn, isSelProng |-> sel, pxProng |-> px, pyProng |-> py,
   pzProng |-> pz, dcaXY |-> dca]

TrackKinds ==
  { Track(1, 3, -3, 1, 0, 2),
    Track(1, 3, 2, 2, 0, -1),
    Track(-1, 3, -3, 2, 0, 1),
    Track(-1, 1, -3, 0, 0, -2),
    Track(0, 3, 2, 2, 0, 1),
    Track(1, 2, 0, 3, 0, 3) }

RECURSIVE TablesOfLen(_)
TablesOfLen(n) ==
  IF n = 0 THEN { <<>> }
  ELSE { Append(t, k) : t \in TablesOfLen(n - 1), k \in TrackKinds }

TrackTables == UNION { TablesOfLen(n) : n \in 1..MaxTracks }

\* values an uninitialised int of the process frame may hold
Indeterminate == {0, 7}

\* what the vertex fitter may report for a tuple: failure (NoFit), or the
\* candidate pT after the fit, the cosine of the pointing angle and the decay
\* length.  The fitter is a function of the tracks it is given; a run draws
\* it from FitterModels, which answer by the parity of the sum of the
\* tracks' indices.
NoFit == [pt |-> -1, cpa |-> -1, decL |-> -1]

FitOutcomes ==
  { NoFit,
    [pt |-> 3, cpa |-> 4, decL |-> 2],
    [pt |-> 9, cpa |-> 4, decL |-> 1],
    [pt |-> 3, cpa |-> 3, decL |-> 2] }

FitterModels ==
  { [odd |-> NoFit, even |-> [pt |-> 3, cpa |-> 4, decL |-> 2]],
    [odd |-> [pt |-> 3, cpa |-> 4, decL |-> 2], even |-> [pt |-> 9, cpa |-> 4, decL |-> 1]],
    [odd |-> [pt |-> 9, cpa |-> 4, decL |-> 1], even |-> [pt |-> 3, cpa |-> 3, decL |-> 2]],
    [odd |-> [pt |-> 3, cpa |-> 3, decL |-> 2], even |-> NoFit] }

RECURSIVE SumSeq(_)
SumSeq(q) == IF q = <<>> THEN 0 ELSE Head(q) + SumSeq(Tail(q))

(***************************************************************************)
(* State of HfTrackIndexSkimsCreator: the configurables, the tracks of the *)
(* collision handed to process(), the locals of process() and of the       *)
(* selection functions, the output tables, and the records kept of what    *)
(* was evaluated.                                                          *)
(***************************************************************************)
VARIABLES
  debug,                 \* Configurable debug
  do3prong,              \* Configurable do3prong
  cut2Prong,             \* array of the 2-prong LabeledArrays
  pTBins2Prong,          \* array of the 2-prong bin-edge vectors
  cut3Prong,
  pTBins3Prong,
  tracks,                \* SelectedTracks of the collision
  fitter,                \* the answers of the vertex fitter in this run
  pc,                    \* position of process() in its code
  iPos1,                 \* trackPos1
  iNeg1,                 \* trackNeg1
  iThird,                \* trackPos2 or trackNeg2
  loop3,                 \* which of the two third-track loops is running
  iDecay,                \* iDecay2P or iDecay3P of the running selection
  pTBin,                 \* pTBin of the running selection
  isSelected2ProngCand,
  cutStatus2Prong,
  whichHypo2Prong,
  isSelected3ProngCand,
  cutStatus3Prong,
  whichHypo3Prong,
  fit,                   \* what the vertex fitter returned for the tuple
  rowTrackIndexProng2,
  rowProng2CutStatus,
  rowTrackIndexProng3,
  rowProng3CutStatus,
  passed2,               \* pairs handed to is2ProngPreselected, in order
  passed3,               \* triples handed to is3ProngPreselected, in order
  stagesRun,             \* <<n, hypothesis, stage>> evaluated for the current tuple
  lastStage,             \* the selection stage passed last, with its outcome
  iCollision,            \* number of the collision being processed
  preselLog,             \* inputs and outputs of every finished preselection
  binEdges,              \* stand-alone pT-bin lookup: the edge vector,
  binValue,              \* the two values looked up
  binResult,             \* and the bins found for them
  cascCuts,              \* HfTrackIndexSkimsCreatorCascades: its Configurables,
  cascTracks,            \* the tracks handed to its process(),
  V0s,                   \* the V0s handed to its process(),
  cascFitter,            \* the answers of its vertex fitter in this run,
  cpc,                   \* position of its process() in its code,
  iBach,                 \* bach
  iV0,                   \* v0
  passedCasc,            \* <<bachelor, V0>> handed to the fitter, in order
  rowTrackIndexCasc,
  initDone,              \* init() has returned
  staticMassMinIndex,    \* the static vectors massMinIndex, massMaxIndex and
  staticMassMaxIndex,    \* d0d0Index of is2ProngPreselected
  staticD0d0Index,
  wpc,                   \* per evaluation: its position in is2ProngPreselected,
  wSeen,                 \* the size resize() found,
  wDecay,                \* its loop index,
  wCand,                 \* the pair it evaluates,
  wSel,                  \* and its isSelected
  unregistered           \* cut names looked up in a table that lacks them

(***************************************************************************)
(* State of HfTagSelTracks: its Configurables, the tracks handed to        *)
(* process(), the locals of the loop body and the output table.            *)
(***************************************************************************)
VARIABLES
  debugTracks,           \* Configurable debug of HfTagSelTracks
  doCutQuality,          \* Configurable doCutQuality
  cutsTracks,            \* the pT, eta, cluster and DCA Configurables
  inputTracks,           \* the tracks handed to process()
  tpc,                   \* position of process() in its loop body
  iTrack,                \* track
  statusProng,
  rowSelectedTrack

(***************************************************************************)
(* State of HFCandidateCreatorX: its Configurables, the tracks and the     *)
(* J/psi candidates of the collision, the answers of the two vertex        *)
(* fitters, the three loop positions and the output table.                 *)
(***************************************************************************)
VARIABLES
  ptPionMin,             \* Configurable ptPionMin
  cutYCandMax,           \* Configurable cutYCandMax
  signOfZero,            \* what sign() answers for a track with signed1Pt = 0
  bigTracks,             \* the tracks of the collision
  jpsiCands,             \* the filtered J/psi candidates of the collision
  fitterX,               \* the answers of df2 and df3 in this run
  xpc,                   \* position of process() in its loops
  iJpsi,                 \* jpsiCand
  iTrackPos,             \* trackPos
  iTrackNeg,             \* trackNeg
  rowCandidateBase

(***************************************************************************)
(* State of getCompatibleBCs: the BC table, the collision's BC and time,   *)
(* the locals of the function and the slice it returns.                    *)
(***************************************************************************)
VARIABLES
  bcs,                   \* globalBC of the rows of the BC table, by globalIndex + 1
  bcId,                  \* collision.bcId()
  collisionTimeBC,       \* lround(collisionTime / LHCBunchSpacingNS)
  deltaBC,
  bpc,                   \* position of getCompatibleBCs in its code
  minBC,
  maxBC,
  bcIter,                \* globalIndex of the row bcIter is at, Len(bcs) at end()
  moveCount,
  minBCId,
  maxBCId,
  slice,                 \* offset and length of the returned slice

(***************************************************************************)
(* State of chargedSpectra (PWGLF/Tasks/spectraCharged.cxx): isRun3, the   *)
(* MC collisions of the successive processMC calls, the members of vars    *)
(* and the fills of multPtSpec_prim_gen_evtloss.                           *)
(***************************************************************************)
  isRun3,                \* Configurable isRun3
  mcCollisions,          \* per processMC call: the MC collision, its particles
                         \* and its reconstructed collisions
  iMcCollision,          \* number of the processMC call
  mpc,                   \* position of processMC in its code
  multMeas,              \* vars.multMeas
  multTrue,              \* vars.multTrue
  isAcceptedEvent,       \* vars.isAcceptedEvent
  isAcceptedEventMC,     \* vars.isAcceptedEventMC
  lastEvent,             \* the collision initEvent was called with last
  evtloss,               \* fills of multPtSpec_prim_gen_evtloss: call, particle

(***************************************************************************)
(* State of femtoDreamProducerTask: two Configurables, the collisions of   *)
(* the successive process calls with their tracks and V0s, the position in *)
(* process and the three output tables.                                    *)
(***************************************************************************)
  ConfIsTrigger,
  ConfDebugOutput,
  femtoCollisions,       \* per process call: col, tracks and fullV0s
  iCol,                  \* number of the process call
  fpc,                   \* position of process in its code
  iFemtoTrack,           \* track
  iFemtoV0,              \* v0
  outputCollision,
  outputTracks,
  outputDebugTracks

skimVars ==
  << debug, do3prong, cut2Prong, pTBins2Prong, cut3Prong, pTBins3Prong, tracks,
     fitter, pc, iPos1, iNeg1, iThird, loop3, iDecay, pTBin,
     isSelected2ProngCand, cutStatus2Prong, whichHypo2Prong,
     isSelected3ProngCand, cutStatus3Prong, whichHypo3Prong, fit,
     rowTrackIndexProng2, rowProng2CutStatus, rowTrackIndexProng3,
     rowProng3CutStatus, passed2, passed3, stagesRun, lastStage, iCollision,
     preselLog >>

binVars == << binEdges, binValue, binResult >>

cascVars ==
  << cascCuts, cascTracks, V0s, cascFitter, cpc, iBach, iV0, passedCasc,
     rowTrackIndexCasc >>

cacheVars ==
  << initDone, staticMassMinIndex, staticMassMaxIndex, staticD0d0Index, wpc, wSeen,
     wDecay, wCand,
     wSel, unregistered >>

selVars ==
  << debugTracks, doCutQuality, cutsTracks, inputTracks, tpc, iTrack, statusProng,
     rowSelectedTrack >>

xVars ==
  << ptPionMin, cutYCandMax, signOfZero, bigTracks, jpsiCands, fitterX, xpc, iJpsi,
     iTrackPos, iTrackNeg, rowCandidateBase >>

bcVars ==
  << bcs, bcId, collisionTimeBC, deltaBC, bpc, minBC, maxBC, bcIter, moveCount,
     minBCId, maxBCId, slice >>

spectraVars ==
  << isRun3, mcCollisions, iMcCollision, mpc, multMeas, multTrue, isAcceptedEvent,
     isAcceptedEventMC, lastEvent, evtloss >>

femtoVars ==
  << ConfIsTrigger, ConfDebugOutput, femtoCollisions, iCol, fpc, iFemtoTrack,
     iFemtoV0, outputCollision, outputTracks, outputDebugTracks >>

auxVars == << selVars, xVars, bcVars, spectraVars, femtoVars >>

vars == << skimVars, binVars, cascVars, cacheVars, auxVars >>

\* HfTagSelTracks is not run
SelIdle ==
  /\ debugTracks = FALSE
  /\ doCutQuality = FALSE
  /\ cutsTracks = << >>
  /\ inputTracks = << >>
  /\ tpc = "idle"
  /\ iTrack = 0
  /\ statusProng = 0
  /\ rowSelectedTrack = << >>

\* HFCandidateCreatorX is not run
XIdle ==
  /\ ptPionMin = 0
  /\ cutYCandMax = 0
  /\ signOfZero = 0
  /\ bigTracks = << >>
  /\ jpsiCands = << >>
  /\ fitterX = << >>
  /\ xpc = "idle"
  /\ iJpsi = 0
  /\ iTrackPos = 0
  /\ iTrackNeg = 0
  /\ rowCandidateBase = << >>

\* getCompatibleBCs is not called
BCIdle ==
  /\ bcs = << >>
  /\ bcId = 0
  /\ collisionTimeBC = 0
  /\ deltaBC = 0
  /\ bpc = "idle"
  /\ minBC = 0
  /\ maxBC = 0
  /\ bcIter = 0
  /\ moveCount = 0
  /\ minBCId = 0
  /\ maxBCId = 0
  /\ slice = << >>

\* chargedSpectra is not run
SpectraIdle ==
  /\ isRun3 = TRUE
  /\ mcCollisions = << >>
  /\ iMcCollision = 0
  /\ mpc = "idle"
  /\ multMeas = 0
  /\ multTrue = 0
  /\ isAcceptedEvent = FALSE
  /\ isAcceptedEventMC = FALSE
  /\ lastEvent = << >>
  /\ evtloss = << >>

\* femtoDreamProducerTask is not run
FemtoIdle ==
  /\ ConfIsTrigger = FALSE
  /\ ConfDebugOutput = FALSE
  /\ femtoCollisions = << >>
  /\ iCol = 0
  /\ fpc = "idle"
  /\ iFemtoTrack = 0
  /\ iFemtoV0 = 0
  /\ outputCollision = << >>
  /\ outputTracks = << >>
  /\ outputDebugTracks = << >>

\* none of the other tasks is run
AuxIdle == SelIdle /\ XIdle /\ BCIdle /\ SpectraIdle /\ FemtoIdle

\* the tasks other than femtoDreamProducerTask
notFemtoVars ==
  << skimVars, binVars, cascVars, cacheVars, selVars, xVars, bcVars, spectraVars >>

\* the tasks other than HfTagSelTracks
notSelVars ==
  << skimVars, binVars, cascVars, cacheVars, xVars, bcVars, spectraVars, femtoVars >>

\* the tasks other than HFCandidateCreatorX
notXVars ==
  << skimVars, binVars, cascVars, cacheVars, selVars, bcVars, spectraVars, femtoVars >>

\* the tasks other than getCompatibleBCs
notBCVars ==
  << skimVars, binVars, cascVars, cacheVars, selVars, xVars, spectraVars, femtoVars >>

\* the tasks other than chargedSpectra
notSpectraVars ==
  << skimVars, binVars, cascVars, cacheVars, selVars, xVars, bcVars, femtoVars >>

Decays2 == 0..(n2ProngDecays - 1)
Decays3 == 0..(n3ProngDecays - 1)

\* faulty variant of n2ProngBit: the subtraction is forgotten
n2ProngBitOneTooHigh == BIT(n2ProngDecays)

\* bit value with one bit per decay, all set
n2ProngBit == BIT(n2ProngDecays) - 1

n3ProngBit == BIT(n3ProngDecays) - 1

nCutStatus2ProngBit == BIT(nCuts2Prong) - 1

nCutStatus3ProngBit == BIT(nCuts3Prong) - 1

\* the debug reset of the cut-status matrix to all true
AllTrue2 == [i \in Decays2 |-> [c \in 0..(nCuts2Prong - 1) |-> TRUE]]

AllTrue3 == [i \in Decays3 |-> [c \in 0..(nCuts3Prong - 1) |-> TRUE]]

\* daughter masses of the two mass assignments of each decay
arrMass2Prong(i) ==
  CASE i = 0 -> << <<massPi, massK>>, <<massK, massPi>> >>
    [] i = 1 -> << <<massElectron, massElectron>>, <<massElectron, massElectron>> >>
    [] i = 2 -> << <<massMuon, massMuon>>, <<massMuon, massMuon>> >>

arrMass3Prong(i) ==
  CASE i = 0 -> << <<massPi, massK, massPi>>, <<massPi, massK, massPi>> >>
    [] i = 1 -> << <<massProton, massK, massPi>>, <<massPi, massK, massProton>> >>
    [] i = 2 -> << <<massK, massK, massPi>>, <<massPi, massK, massK>> >>
    [] i = 3 -> << <<massProton, massK, massPi>>, <<massPi, massK, massProton>> >>

pVec(t) == << t.pxProng, t.pyProng, t.pzProng >>

\* the tuple under evaluation: indices into tracks, in the order in which
\* the daughters are handed to the selection
Pair == << iPos1, iNeg1 >>

Triple ==
  IF loop3 = "pos2" THEN << iPos1, iNeg1, iThird >> ELSE << iNeg1, iPos1, iThird >>

arrMom2 == << pVec(tracks[iPos1]), pVec(tracks[iNeg1]) >>

arrMom3(tr) == << pVec(tracks[tr[1]]), pVec(tracks[tr[2]]), pVec(tracks[tr[3]]) >>

\* faulty variant of PreselPt: the tolerance is left out
PreselPtNoTolerance(arrMom) == Pt(arrMom)

\* pT used by the preselection: the tolerance is added because there is no
\* reconstructed decay vertex yet
PreselPt(arrMom) == Pt(arrMom) + pTTolerance

\* faulty variant of OutsideMassWindow: the upper edge is taken as inside
OutsideMassWindowClosed(m2, min2, max2) == m2 < min2 \/ m2 > max2

\* the mass cut of one ordering fails
OutsideMassWindow(m2, min2, max2) == m2 < min2 \/ m2 >= max2

\* faulty variant of MassCutOn: the sign of massMin is not looked at
MassCutOnMaxOnly(massMin, massMax) == massMax > 0

\* the mass window of the row is switched on
MassCutOn(massMin, massMax) == massMin >= 0 /\ massMax > 0

\* faulty variant of HypoAfterMass: the two orderings are exchanged
HypoAfterMassSwapped(m2first, m2second, min2, max2) ==
  3 - (IF OutsideMassWindow(m2first, min2, max2) THEN 2 ELSE 0)
    - (IF OutsideMassWindow(m2second, min2, max2) THEN 1 ELSE 0)

\* value of whichHypo after the two orderings were tested
HypoAfterMass(m2first, m2second, min2, max2) ==
  3 - (IF OutsideMassWindow(m2first, min2, max2) THEN 1 ELSE 0)
    - (IF OutsideMassWindow(m2second, min2, max2) THEN 2 ELSE 0)

\* faulty variant of ImpParProductCut: a product equal to the maximum is cut
ImpParProductCutInclusive(impParProduct, d0d0Max) == impParProduct >= d0d0Max

\* "impParProduct > cut2Prong[iDecay2P].get(pTBin, d0d0Index[iDecay2P])"
ImpParProductCut(impParProduct, d0d0Max) == impParProduct > d0d0Max

\* faulty variant of StageOn: a cut is evaluated whatever the bit says
StageOnAlways(isSelected, i) == TRUE

\* faulty variant of StageOn: cuts are evaluated in debug mode only
StageOnDebugOnly(isSelected, i) == debug

\* "debug || TESTBIT(isSelected, iDecay)": a cut is evaluated for a decay
\* that is still selected, and for every decay in debug mode
StageOn(isSelected, i) == debug \/ TESTBIT(isSelected, i)

\* faulty variant of SelPt: the tolerance of the preselection is added
SelPtWithTolerance(f) == f.pt + pTTolerance

\* pT used by the selection after the fit: RecoDecay::Pt(pVecCand)
SelPt(f) == f.pt

\* a cut-status row packed into bits, as written to the cut-status table
RECURSIVE PackFrom(_, _, _)
PackFrom(row, c, n) ==
  IF c = n THEN 0 ELSE (IF row[c] THEN BIT(c) ELSE 0) + PackFrom(row, c + 1, n)

\* faulty variant of PackStatus: the row is written with every bit set
PackStatusAllSet(row, n) == BIT(n) - 1

PackStatus(row, n) == PackFrom(row, 0, n)


\* faulty variant of setCutStatusFalse: the entry of the next cut is written
setCutStatusFalseNext(cutStatus, i, iCut) ==
  IF debug THEN [cutStatus EXCEPT ![i][(iCut + 1) % nCuts2Prong] = FALSE] ELSE cutStatus

\* "if (debug) cutStatus[i][iCut] = false"
setCutStatusFalse(cutStatus, i, iCut) ==
  IF debug THEN [cutStatus EXCEPT ![i][iCut] = FALSE] ELSE cutStatus

\* record of one selection stage of decay i of the n-prong tuple: the pT bin
\* in use, whether the cut was evaluated, and the bitmap before and after
StageRecord(n, tuple, i, stage, bin, ran, before, after) ==
  [ cand |-> n, tuple |-> tuple, decay |-> i, stage |-> stage, bin |-> bin,
    ran |-> ran, before |-> before, after |-> after ]

NoStage == StageRecord(0, <<>>, 0, "none", -1, FALSE, 0, 0)

(***************************************************************************)
(* Initial state: process() is entered for the first collision.  The       *)
(* locals that the code declares without a value hold an indeterminate     *)
(* value.                                                                  *)
(***************************************************************************)
BinIdle ==
  /\ binEdges = <<>>
  /\ binValue = <<>>
  /\ binResult = <<>>

(***************************************************************************)
(* Inputs of HfTrackIndexSkimsCreatorCascades.  Pseudorapidities and the   *)
(* cosine of the V0 pointing angle are in units of 0.1.                    *)
(***************************************************************************)
CascTrack(sel, refit, rows, pt, eta, p) ==
  [isSelProng |-> sel, tpcRefit |-> refit, tpcNClsCrossedRows |-> rows, pt |-> pt,
   eta |-> eta, p |-> p]

V0(pos, neg, m, cosPA, p) ==
  [posTrack |-> pos, negTrack |-> neg, mK0Short |-> m, v0cosPA |-> cosPA, p |-> p]

\* a track that passes every track cut of the defaults
GoodDaughter == CascTrack(0, TRUE, 70, 3, 2, << 3, 0, 0 >>)

CascTrackKinds ==
  { CascTrack(4, TRUE, 70, 10, 0, << 10, 0, 0 >>),
    CascTrack(7, TRUE, 70, 5, 0, << 3, 4, 0 >>),
    CascTrack(3, TRUE, 70, 10, 0, << 10, 0, 0 >>),
    CascTrack(4, FALSE, 70, 10, 0, << 10, 0, 0 >>),
    CascTrack(4, TRUE, 40, 10, 0, << 10, 0, 0 >>) }

V0Kinds ==
  { V0(GoodDaughter, GoodDaughter, 5, 10, << 10, 0, 0 >>),
    V0(GoodDaughter, GoodDaughter, 5, 9, << -30, 0, 0 >>),
    V0(GoodDaughter, CascTrack(0, FALSE, 70, 3, 2, << 3, 0, 0 >>), 5, 10, << 10, 0, 0 >>),
    V0(CascTrack(0, TRUE, 70, 0, 12, << 0, 0, 0 >>), GoodDaughter, 5, 10, << 10, 0, 0 >>),
    V0(GoodDaughter, GoodDaughter, 7, 10, << 10, 0, 0 >>),
    V0(GoodDaughter, GoodDaughter, 5, 8, << 10, 0, 0 >>) }

\* the tables of at most n rows drawn from kinds
RECURSIVE TablesUpTo(_, _)
TablesUpTo(kinds, n) ==
  IF n = 0 THEN { <<>> }
  ELSE TablesUpTo(kinds, n - 1)
         \cup { Append(t, k) : t \in { u \in TablesUpTo(kinds, n - 1) : Len(u) = n - 1 },
                               k \in kinds }

\* two settings of the Configurables: the defaults (with ptMin and
\* cutInvMassV0 of one unit), and one without refit requirements and Lc mass
\* window but with a minimum candidate pT
CascadeCuts ==
  { [TPCRefitBach |-> TRUE, minCrossedRowsBach |-> 50, TPCRefitV0Daugh |-> TRUE,
     minCrossedRowsV0Daugh |-> 50, etaMax |-> 11, ptMin |-> 1, cosPAV0 |-> 9,
     cutInvMassV0 |-> 1, cutCascPtCandMin |-> -10, cutCascInvMassLc |-> 10],
    [TPCRefitBach |-> FALSE, minCrossedRowsBach |-> 50, TPCRefitV0Daugh |-> FALSE,
     minCrossedRowsV0Daugh |-> 50, etaMax |-> 11, ptMin |-> 1, cosPAV0 |-> 9,
     cutInvMassV0 |-> 1, cutCascPtCandMin |-> 10, cutCascInvMassLc |-> -1] }

\* what the fitter of the cascade creator reports for a V0 and a bachelor:
\* the number of candidates found, and the candidate pT at the vertex.  A
\* run draws the fitter from CascFitterModels, which answer by the parity of
\* the sum of the two indices.
NoCascFit == [nCand |-> 0, pt |-> -1]

CascFitterModels ==
  { [odd |-> NoCascFit, even |-> [nCand |-> 1, pt |-> 20]],
    [odd |-> [nCand |-> 1, pt |-> 5], even |-> NoCascFit],
    [odd |-> [nCand |-> 1, pt |-> 20], even |-> [nCand |-> 1, pt |-> 5]] }

\* the cascade creator is not run
CascIdle ==
  /\ cascCuts = [TPCRefitBach |-> TRUE, minCrossedRowsBach |-> 50,
                 TPCRefitV0Daugh |-> TRUE, minCrossedRowsV0Daugh |-> 50,
                 etaMax |-> 11, ptMin |-> 1, cosPAV0 |-> 9, cutInvMassV0 |-> 1,
                 cutCascPtCandMin |-> -10, cutCascInvMassLc |-> 10]
  /\ cascTracks = <<>>
  /\ V0s = <<>>
  /\ cascFitter = [odd |-> NoCascFit, even |-> NoCascFit]
  /\ cpc = "idle"
  /\ iBach = 0
  /\ iV0 = 0
  /\ passedCasc = <<>>
  /\ rowTrackIndexCasc = <<>>

(***************************************************************************)
(* Overlapping evaluations of is2ProngPreselected and its static vectors.  *)
(***************************************************************************)
Workers == 1..NWorkers

\* no evaluation of is2ProngPreselected is followed on its own
CacheIdle ==
  /\ initDone = TRUE
  /\ staticMassMinIndex = <<>>
  /\ staticMassMaxIndex = <<>>
  /\ staticD0d0Index = <<>>
  /\ wpc = [w \in Workers |-> "off"]
  /\ wSeen = [w \in Workers |-> 0]
  /\ wDecay = [w \in Workers |-> 0]
  /\ wCand = [w \in Workers |-> << >>]
  /\ wSel = [w \in Workers |-> 0]
  /\ unregistered = {}

\* the locals of process() at its entry
EnterProcess(g, hypo2, hypo3, status2, status3) ==
  /\ hypo2 = [i \in Decays2 |-> g]
  /\ hypo3 = [i \in Decays3 |-> g]
  /\ status2 = [i \in Decays2 |-> [c \in 0..(nCuts2Prong - 1) |-> g # 0]]
  /\ status3 = [i \in Decays3 |-> [c \in 0..(nCuts3Prong - 1) |-> g # 0]]

Init ==
  /\ AuxIdle
  /\ debug \in BOOLEAN
  /\ do3prong \in {0, 1}
  /\ \E c \in DOMAIN CutConfigs2Prong :
       /\ cut2Prong = CutConfigs2Prong[c].cuts
       /\ pTBins2Prong = CutConfigs2Prong[c].bins
       /\ cut3Prong = CutConfigs3Prong[c].cuts
       /\ pTBins3Prong = CutConfigs3Prong[c].bins
  /\ tracks \in TrackTables
  /\ fitter \in FitterModels
  /\ pc = "pos1"
  /\ iCollision = 1
  /\ iPos1 = 1
  /\ iNeg1 = 0
  /\ iThird = 0
  /\ loop3 = "none"
  /\ iDecay = 0
  /\ pTBin = -1
  /\ isSelected2ProngCand = 0
  /\ isSelected3ProngCand = 0
  /\ \E g \in Indeterminate :
       EnterProcess(g, whichHypo2Prong, whichHypo3Prong, cutStatus2Prong,
                    cutStatus3Prong)
  /\ fit = NoFit
  /\ rowTrackIndexProng2 = <<>>
  /\ rowProng2CutStatus = <<>>
  /\ rowTrackIndexProng3 = <<>>
  /\ rowProng3CutStatus = <<>>
  /\ passed2 = <<>>
  /\ passed3 = <<>>
  /\ stagesRun = {}
  /\ lastStage = NoStage
  /\ preselLog = <<>>
  /\ BinIdle
  /\ CascIdle
  /\ CacheIdle

(***************************************************************************)
(* The loops of process() over trackPos1 and trackNeg1.                    *)
(***************************************************************************)
\* faulty variant of sel2Prong: the bit of the 3-prong flag is tested
sel2ProngWrongBit(i) == TESTBIT(tracks[i].isSelProng, Cand3Prong)

sel2Prong(i) == TESTBIT(tracks[i].isSelProng, Cand2Prong)

\* faulty variant of sel3Prong: the bit of the 2-prong flag is tested
sel3ProngWrongBit(i) == TESTBIT(tracks[i].isSelProng, Cand2Prong)

sel3Prong(i) == TESTBIT(tracks[i].isSelProng, Cand3Prong)

\* DCAFitterN::process for the tracks of a tuple
process(tuple) == IF SumSeq(tuple) % 2 = 1 THEN fitter.odd ELSE fitter.even

\* faulty variant of FitSucceeded: the return value of the fitter is ignored
FitAlwaysSucceeds(tuple) == TRUE

\* "df2.process(...) > 0", "df3.process(...) == 0": the fitter found a vertex
FitSucceeded(tuple) == process(tuple) # NoFit

\* faulty variant of DropTriple: the triple is kept whatever its bitmap
DropTripleNever == FALSE

\* "if (!debug && isSelected3ProngCand == 0) continue;"
DropTriple == ~debug /\ isSelected3ProngCand = 0

selUnchanged ==
  UNCHANGED << isSelected2ProngCand, cutStatus2Prong, whichHypo2Prong,
               isSelected3ProngCand, cutStatus3Prong, whichHypo3Prong >>

outUnchanged ==
  UNCHANGED << rowTrackIndexProng2, rowProng2CutStatus, rowTrackIndexProng3,
               rowProng3CutStatus >>

cfgUnchanged ==
  UNCHANGED << debug, do3prong, cut2Prong, pTBins2Prong, cut3Prong, pTBins3Prong,
               tracks, fitter, iCollision, binVars, cascVars, cacheVars, auxVars >>

\* head of the loop over trackPos1
NextPos1 ==
  /\ pc = "pos1"
  /\ IF iPos1 > Len(tracks)
     THEN /\ pc' = "done"
          /\ UNCHANGED << iPos1, iNeg1 >>
     ELSE IF tracks[iPos1].signed1Pt < 0
             \/ (~sel2Prong(iPos1) /\ ~sel3Prong(iPos1))
     THEN /\ pc' = "pos1"
          /\ iPos1' = iPos1 + 1
          /\ UNCHANGED iNeg1
     ELSE /\ pc' = "neg1"
          /\ iNeg1' = 1
          /\ UNCHANGED iPos1
  /\ UNCHANGED << iThird, loop3, iDecay, pTBin, fit, passed2, passed3, stagesRun,
                  lastStage, preselLog >>
  /\ selUnchanged /\ outUnchanged /\ cfgUnchanged

\* head of the loop over trackNeg1: the bitmap and (in debug mode) the
\* cut-status matrix are set up, and the pair goes to the 2-prong selection
\* when both tracks are flagged for it
NextNeg1 ==
  /\ pc = "neg1"
  /\ IF iNeg1 > Len(tracks)
     THEN /\ pc' = "pos1"
          /\ iPos1' = iPos1 + 1
          /\ UNCHANGED << iNeg1, isSelected2ProngCand, cutStatus2Prong, passed2,
                          stagesRun >>
     ELSE IF tracks[iNeg1].signed1Pt > 0
             \/ (~sel2Prong(iNeg1) /\ ~sel3Prong(iNeg1))
     THEN /\ pc' = "neg1"
          /\ iNeg1' = iNeg1 + 1
          /\ UNCHANGED << iPos1, isSelected2ProngCand, cutStatus2Prong, passed2,
                          stagesRun >>
     ELSE /\ isSelected2ProngCand' = n2ProngBit
          /\ cutStatus2Prong' = IF debug THEN AllTrue2 ELSE cutStatus2Prong
          /\ stagesRun' = {}
          /\ IF sel2Prong(iPos1) /\ sel2Prong(iNeg1)
             THEN /\ pc' = "pre2_pT"
                  /\ passed2' = Append(passed2, Pair)
             ELSE /\ pc' = "sec3"
                  /\ UNCHANGED passed2
          /\ UNCHANGED << iPos1, iNeg1 >>
  /\ iDecay' = 0
  /\ UNCHANGED << iThird, loop3, pTBin, fit, passed3, lastStage, preselLog,
                  whichHypo2Prong, isSelected3ProngCand, cutStatus3Prong,
                  whichHypo3Prong >>
  /\ outUnchanged /\ cfgUnchanged

(***************************************************************************)
(* is2ProngPreselected, one action per selection stage of one decay.       *)
(***************************************************************************)
massMinIndex2(i) == find(cut2Prong[i], "massMin")

massMaxIndex2(i) == find(cut2Prong[i], "massMax")

d0d0Index(i) == find(cut2Prong[i], "d0d0")

cospIndex2(i) == find(cut2Prong[i], "cosp")

\* what the preselection was given and what it left in its output arguments
PreselRecord2 ==
  [ n |-> 2,
    mom |-> arrMom2,
    dca |-> << tracks[iPos1].dcaXY, tracks[iNeg1].dcaXY >>,
    isSelected |-> isSelected2ProngCand',
    whichHypo |-> whichHypo2Prong' ]

\* next turn of the loop over the decays, or return to process()
Pre2Continue ==
  IF iDecay + 1 < n2ProngDecays
  THEN /\ pc' = "pre2_pT"
       /\ iDecay' = iDecay + 1
       /\ UNCHANGED preselLog
  ELSE /\ pc' = "fit2"
       /\ iDecay' = 0
       /\ preselLog' = Append(preselLog, PreselRecord2)

\* pT: a decay without a pT bin is rejected and its remaining cuts skipped
Pre2_pT ==
  /\ pc = "pre2_pT"
  /\ UNCHANGED whichHypo2Prong
  /\ LET bin == findBin(pTBins2Prong[iDecay], PreselPt(arrMom2)) IN
       /\ IF bin = -1
          THEN /\ isSelected2ProngCand' = CLRBIT(isSelected2ProngCand, iDecay)
               /\ cutStatus2Prong' = setCutStatusFalse(cutStatus2Prong, iDecay, 0)
               /\ stagesRun' = stagesRun \cup { <<2, iDecay, "pT">>, <<2, iDecay, "noBin">> }
               /\ pTBin' = -1
               /\ Pre2Continue
          ELSE /\ pTBin' = bin
               /\ stagesRun' = stagesRun \cup { <<2, iDecay, "pT">> }
               /\ pc' = "pre2_mass"
               /\ UNCHANGED << isSelected2ProngCand, cutStatus2Prong, iDecay, preselLog >>
       /\ lastStage' = StageRecord(2, Pair, iDecay, "pT", bin, TRUE,
                                   isSelected2ProngCand, isSelected2ProngCand')
  /\ UNCHANGED << iPos1, iNeg1, iThird, loop3, fit, passed2, passed3,
                  isSelected3ProngCand, cutStatus3Prong, whichHypo3Prong >>
  /\ outUnchanged /\ cfgUnchanged

\* invariant mass of the two mass assignments
Pre2_mass ==
  /\ pc = "pre2_mass"
  /\ LET massMin == get(cut2Prong[iDecay], pTBin, massMinIndex2(iDecay))
         massMax == get(cut2Prong[iDecay], pTBin, massMaxIndex2(iDecay))
         min2 == massMin ^ 2
         max2 == massMax ^ 2
         hypo == HypoAfterMass(M2(arrMom2, arrMass2Prong(iDecay)[1]),
                               M2(arrMom2, arrMass2Prong(iDecay)[2]), min2, max2)
         ran == StageOn(isSelected2ProngCand, iDecay) /\ MassCutOn(massMin, massMax)
     IN /\ IF ran
           THEN /\ whichHypo2Prong' = [whichHypo2Prong EXCEPT ![iDecay] = hypo]
                /\ stagesRun' = stagesRun \cup { <<2, iDecay, "mass">> }
                /\ IF hypo = 0
                   THEN /\ isSelected2ProngCand' = CLRBIT(isSelected2ProngCand, iDecay)
                        /\ cutStatus2Prong' = setCutStatusFalse(cutStatus2Prong, iDecay, 1)
                   ELSE UNCHANGED << isSelected2ProngCand, cutStatus2Prong >>
           ELSE /\ whichHypo2Prong' = [whichHypo2Prong EXCEPT ![iDecay] = 3]
                /\ UNCHANGED << stagesRun, isSelected2ProngCand, cutStatus2Prong >>
        /\ lastStage' = StageRecord(2, Pair, iDecay, "mass", pTBin, ran,
                                    isSelected2ProngCand, isSelected2ProngCand')
  /\ pc' = "pre2_d0d0"
  /\ UNCHANGED << iPos1, iNeg1, iThird, loop3, iDecay, pTBin, fit, passed2, passed3,
                  preselLog, isSelected3ProngCand, cutStatus3Prong, whichHypo3Prong >>
  /\ outUnchanged /\ cfgUnchanged

\* product of the impact parameters of the two daughters
Pre2_d0d0 ==
  /\ pc = "pre2_d0d0"
  /\ UNCHANGED whichHypo2Prong
  /\ LET ran == StageOn(isSelected2ProngCand, iDecay)
         impParProduct == tracks[iPos1].dcaXY * tracks[iNeg1].dcaXY
     IN /\ IF ran
           THEN /\ stagesRun' = stagesRun \cup { <<2, iDecay, "d0d0">> }
                /\ IF ImpParProductCut(impParProduct,
                                       get(cut2Prong[iDecay], pTBin, d0d0Index(iDecay)))
                   THEN /\ isSelected2ProngCand' = CLRBIT(isSelected2ProngCand, iDecay)
                        /\ cutStatus2Prong' = setCutStatusFalse(cutStatus2Prong, iDecay, 2)
                   ELSE UNCHANGED << isSelected2ProngCand, cutStatus2Prong >>
           ELSE UNCHANGED << stagesRun, isSelected2ProngCand, cutStatus2Prong >>
        /\ lastStage' = StageRecord(2, Pair, iDecay, "d0d0", pTBin, ran,
                                    isSelected2ProngCand, isSelected2ProngCand')
  /\ pTBin' = -1
  /\ Pre2Continue
  /\ UNCHANGED << iPos1, iNeg1, iThird, loop3, fit, passed2, passed3,
                  isSelected3ProngCand, cutStatus3Prong, whichHypo3Prong >>
  /\ outUnchanged /\ cfgUnchanged

(***************************************************************************)
(* Secondary-vertex fit of the pair and is2ProngSelected.                  *)
(***************************************************************************)
\* the fitter is consulted only for a pair that is still selected; it
\* reports failure or a vertex with the momenta propagated to it
Fit2 ==
  /\ pc = "fit2"
  /\ \/ /\ isSelected2ProngCand = 0
        /\ pc' = "sec3"
        /\ fit' = NoFit
     \/ /\ isSelected2ProngCand > 0
        /\ ~FitSucceeded(Pair)
        /\ pc' = "sec3"
        /\ fit' = NoFit
     \/ /\ isSelected2ProngCand > 0
        /\ FitSucceeded(Pair)
        /\ fit' = process(Pair)
        /\ pc' = IF debug \/ isSelected2ProngCand > 0 THEN "post2_pT" ELSE "fill2"
  /\ UNCHANGED << iPos1, iNeg1, iThird, loop3, iDecay, pTBin, passed2, passed3,
                  stagesRun, lastStage, preselLog >>
  /\ selUnchanged /\ outUnchanged /\ cfgUnchanged

Post2Continue ==
  IF iDecay + 1 < n2ProngDecays
  THEN /\ pc' = "post2_pT"
       /\ iDecay' = iDecay + 1
  ELSE /\ pc' = "fill2"
       /\ iDecay' = 0

\* pT of the fitted candidate
Post2_pT ==
  /\ pc = "post2_pT"
  /\ LET bin == findBin(pTBins2Prong[iDecay], SelPt(fit)) IN
       /\ IF bin = -1
          THEN /\ isSelected2ProngCand' = CLRBIT(isSelected2ProngCand, iDecay)
               /\ cutStatus2Prong' = setCutStatusFalse(cutStatus2Prong, iDecay, 0)
               /\ stagesRun' =
                    stagesRun \cup { <<2, iDecay, "pTfit">>, <<2, iDecay, "noBinFit">> }
               /\ pTBin' = -1
               /\ Post2Continue
          ELSE /\ pTBin' = bin
               /\ stagesRun' = stagesRun \cup { <<2, iDecay, "pTfit">> }
               /\ pc' = "post2_cosp"
               /\ UNCHANGED << isSelected2ProngCand, cutStatus2Prong, iDecay >>
       /\ lastStage' = StageRecord(2, Pair, iDecay, "pTfit", bin, TRUE,
                                   isSelected2ProngCand, isSelected2ProngCand')
  /\ UNCHANGED << iPos1, iNeg1, iThird, loop3, fit, passed2, passed3, preselLog,
                  whichHypo2Prong, isSelected3ProngCand, cutStatus3Prong,
                  whichHypo3Prong >>
  /\ outUnchanged /\ cfgUnchanged

\* cosine of the pointing angle
Post2_cosp ==
  /\ pc = "post2_cosp"
  /\ LET ran == StageOn(isSelected2ProngCand, iDecay) IN
       /\ IF ran
          THEN /\ stagesRun' = stagesRun \cup { <<2, iDecay, "cosp">> }
               /\ IF fit.cpa < get(cut2Prong[iDecay], pTBin, cospIndex2(iDecay))
                  THEN /\ isSelected2ProngCand' = CLRBIT(isSelected2ProngCand, iDecay)
                       /\ cutStatus2Prong' = setCutStatusFalse(cutStatus2Prong, iDecay, 3)
                  ELSE UNCHANGED << isSelected2ProngCand, cutStatus2Prong >>
          ELSE UNCHANGED << stagesRun, isSelected2ProngCand, cutStatus2Prong >>
       /\ lastStage' = StageRecord(2, Pair, iDecay, "cosp", pTBin, ran,
                                   isSelected2ProngCand, isSelected2ProngCand')
  /\ pTBin' = -1
  /\ Post2Continue
  /\ UNCHANGED << iPos1, iNeg1, iThird, loop3, fit, passed2, passed3, preselLog,
                  whichHypo2Prong, isSelected3ProngCand, cutStatus3Prong,
                  whichHypo3Prong >>
  /\ outUnchanged /\ cfgUnchanged

\* the row of a pair that is still selected is written, with its cut-status
\* row in debug mode
Fill2 ==
  /\ pc = "fill2"
  /\ IF isSelected2ProngCand > 0
     THEN /\ rowTrackIndexProng2' =
               Append(rowTrackIndexProng2, << iPos1, iNeg1, isSelected2ProngCand >>)
          /\ rowProng2CutStatus' =
               IF debug
               THEN Append(rowProng2CutStatus,
                           [i \in Decays2 |-> PackStatus(cutStatus2Prong[i], nCuts2Prong)])
               ELSE rowProng2CutStatus
     ELSE UNCHANGED << rowTrackIndexProng2, rowProng2CutStatus >>
  /\ pc' = "sec3"
  /\ fit' = NoFit
  /\ UNCHANGED << iPos1, iNeg1, iThird, loop3, iDecay, pTBin, passed2, passed3,
                  stagesRun, lastStage, preselLog, rowTrackIndexProng3,
                  rowProng3CutStatus >>
  /\ selUnchanged /\ cfgUnchanged

(***************************************************************************)
(* 3-prong part of process(): the loops over trackPos2 and trackNeg2.      *)
(***************************************************************************)
Sec3 ==
  /\ pc = "sec3"
  /\ IF do3prong = 1 /\ sel3Prong(iPos1) /\ sel3Prong(iNeg1) /\ ~(Len(tracks) < 2)
     THEN /\ pc' = "pos2"
          /\ loop3' = "pos2"
          /\ iThird' = iPos1 + 1
          /\ UNCHANGED iNeg1
     ELSE /\ pc' = "neg1"
          /\ iNeg1' = iNeg1 + 1
          /\ UNCHANGED << loop3, iThird >>
  /\ UNCHANGED << iPos1, iDecay, pTBin, fit, passed2, passed3, stagesRun, lastStage,
                  preselLog >>
  /\ selUnchanged /\ outUnchanged /\ cfgUnchanged

\* set-up of one triple before is3ProngPreselected is called
Begin3 ==
  /\ isSelected3ProngCand' = n3ProngBit
  /\ cutStatus3Prong' = IF debug THEN AllTrue3 ELSE cutStatus3Prong
  /\ stagesRun' = { e \in stagesRun : e[1] = 2 }
  /\ passed3' = Append(passed3, Triple)
  /\ pc' = "pre3_pT"
  /\ iDecay' = 0
  /\ UNCHANGED << iThird, loop3, iNeg1 >>

\* head of the loop over trackPos2, which starts behind trackPos1
NextPos2 ==
  /\ pc = "pos2"
  /\ IF iThird > Len(tracks)
     THEN /\ pc' = "neg2"
          /\ loop3' = "neg2"
          /\ iThird' = iNeg1 + 1
          /\ UNCHANGED << iNeg1, iDecay, isSelected3ProngCand, cutStatus3Prong,
                          stagesRun, passed3 >>
     ELSE IF tracks[iThird].signed1Pt < 0 \/ ~sel3Prong(iThird)
     THEN /\ pc' = "pos2"
          /\ iThird' = iThird + 1
          /\ UNCHANGED << iNeg1, loop3, iDecay, isSelected3ProngCand, cutStatus3Prong,
                          stagesRun, passed3 >>
     ELSE Begin3
  /\ UNCHANGED << iPos1, pTBin, fit, passed2, lastStage, preselLog,
                  isSelected2ProngCand, cutStatus2Prong, whichHypo2Prong,
                  whichHypo3Prong >>
  /\ outUnchanged /\ cfgUnchanged

\* head of the loop over trackNeg2, which starts behind trackNeg1
NextNeg2 ==
  /\ pc = "neg2"
  /\ IF iThird > Len(tracks)
     THEN /\ pc' = "neg1"
          /\ loop3' = "none"
          /\ iThird' = 0
          /\ iNeg1' = iNeg1 + 1
          /\ UNCHANGED << iDecay, isSelected3ProngCand, cutStatus3Prong, stagesRun,
                          passed3 >>
     ELSE IF tracks[iThird].signed1Pt > 0 \/ ~sel3Prong(iThird)
     THEN /\ pc' = "neg2"
          /\ iThird' = iThird + 1
          /\ UNCHANGED << iNeg1, loop3, iDecay, isSelected3ProngCand, cutStatus3Prong,
                          stagesRun, passed3 >>
     ELSE Begin3
  /\ UNCHANGED << iPos1, pTBin, fit, passed2, lastStage, preselLog,
                  isSelected2ProngCand, cutStatus2Prong, whichHypo2Prong,
                  whichHypo3Prong >>
  /\ outUnchanged /\ cfgUnchanged

\* "continue" in either third-track loop
Continue3 ==
  /\ pc' = loop3
  /\ iThird' = iThird + 1

(***************************************************************************)
(* is3ProngPreselected.                                                    *)
(***************************************************************************)
massMinIndex3(i) == find(cut3Prong[i], "massMin")

massMaxIndex3(i) == find(cut3Prong[i], "massMax")

cospIndex3(i) == find(cut3Prong[i], "cosp")

decLenIndex(i) == find(cut3Prong[i], "decL")

PreselRecord3 ==
  [ n |-> 3,
    mom |-> arrMom3(Triple),
    dca |-> <<>>,
    isSelected |-> isSelected3ProngCand',
    whichHypo |-> whichHypo3Prong' ]

Pre3Continue ==
  IF iDecay + 1 < n3ProngDecays
  THEN /\ pc' = "pre3_pT"
       /\ iDecay' = iDecay + 1
       /\ UNCHANGED preselLog
  ELSE /\ pc' = "fit3"
       /\ iDecay' = 0
       /\ preselLog' = Append(preselLog, PreselRecord3)

Pre3_pT ==
  /\ pc = "pre3_pT"
  /\ UNCHANGED whichHypo3Prong
  /\ LET bin == findBin(pTBins3Prong[iDecay], PreselPt(arrMom3(Triple))) IN
       /\ IF bin = -1
          THEN /\ isSelected3ProngCand' = CLRBIT(isSelected3ProngCand, iDecay)
               /\ cutStatus3Prong' = setCutStatusFalse(cutStatus3Prong, iDecay, 0)
               /\ stagesRun' = stagesRun \cup { <<3, iDecay, "pT">>, <<3, iDecay, "noBin">> }
               /\ pTBin' = -1
               /\ Pre3Continue
          ELSE /\ pTBin' = bin
               /\ stagesRun' = stagesRun \cup { <<3, iDecay, "pT">> }
               /\ pc' = "pre3_mass"
               /\ UNCHANGED << isSelected3ProngCand, cutStatus3Prong, iDecay, preselLog >>
       /\ lastStage' = StageRecord(3, Triple, iDecay, "pT", bin, TRUE,
                                   isSelected3ProngCand, isSelected3ProngCand')
  /\ UNCHANGED << iPos1, iNeg1, iThird, loop3, fit, passed2, passed3,
                  isSelected2ProngCand, cutStatus2Prong, whichHypo2Prong >>
  /\ outUnchanged /\ cfgUnchanged

Pre3_mass ==
  /\ pc = "pre3_mass"
  /\ LET massMin == get(cut3Prong[iDecay], pTBin, massMinIndex3(iDecay))
         massMax == get(cut3Prong[iDecay], pTBin, massMaxIndex3(iDecay))
         min2 == massMin ^ 2
         max2 == massMax ^ 2
         hypo == HypoAfterMass(M2(arrMom3(Triple), arrMass3Prong(iDecay)[1]),
                               M2(arrMom3(Triple), arrMass3Prong(iDecay)[2]), min2, max2)
         ran == StageOn(isSelected3ProngCand, iDecay) /\ MassCutOn(massMin, massMax)
     IN /\ IF ran
           THEN /\ whichHypo3Prong' = [whichHypo3Prong EXCEPT ![iDecay] = hypo]
                /\ stagesRun' = stagesRun \cup { <<3, iDecay, "mass">> }
                /\ IF hypo = 0
                   THEN /\ isSelected3ProngCand' = CLRBIT(isSelected3ProngCand, iDecay)
                        /\ cutStatus3Prong' = setCutStatusFalse(cutStatus3Prong, iDecay, 1)
                   ELSE UNCHANGED << isSelected3ProngCand, cutStatus3Prong >>
           ELSE /\ whichHypo3Prong' = [whichHypo3Prong EXCEPT ![iDecay] = 3]
                /\ UNCHANGED << stagesRun, isSelected3ProngCand, cutStatus3Prong >>
        /\ lastStage' = StageRecord(3, Triple, iDecay, "mass", pTBin, ran,
                                    isSelected3ProngCand, isSelected3ProngCand')
  /\ pTBin' = -1
  /\ Pre3Continue
  /\ UNCHANGED << iPos1, iNeg1, iThird, loop3, fit, passed2, passed3,
                  isSelected2ProngCand, cutStatus2Prong, whichHypo2Prong >>
  /\ outUnchanged /\ cfgUnchanged

(***************************************************************************)
(* Secondary-vertex fit of the triple and is3ProngSelected.                *)
(***************************************************************************)
Fit3 ==
  /\ pc = "fit3"
  /\ \/ /\ DropTriple
        /\ Continue3
        /\ fit' = NoFit
     \/ /\ ~DropTriple
        /\ ~FitSucceeded(Triple)
        /\ Continue3
        /\ fit' = NoFit
     \/ /\ ~DropTriple
        /\ FitSucceeded(Triple)
        /\ fit' = process(Triple)
        /\ pc' = IF debug \/ isSelected3ProngCand > 0 THEN "post3_pT" ELSE "fill3"
        /\ UNCHANGED iThird
  /\ UNCHANGED << iPos1, iNeg1, loop3, iDecay, pTBin, passed2, passed3, stagesRun,
                  lastStage, preselLog >>
  /\ selUnchanged /\ outUnchanged /\ cfgUnchanged

Post3Continue ==
  IF iDecay + 1 < n3ProngDecays
  THEN /\ pc' = "post3_pT"
       /\ iDecay' = iDecay + 1
  ELSE /\ pc' = "fill3"
       /\ iDecay' = 0

Post3_pT ==
  /\ pc = "post3_pT"
  /\ LET bin == findBin(pTBins3Prong[iDecay], SelPt(fit)) IN
       /\ IF bin = -1
          THEN /\ isSelected3ProngCand' = CLRBIT(isSelected3ProngCand, iDecay)
               /\ cutStatus3Prong' = setCutStatusFalse(cutStatus3Prong, iDecay, 0)
               /\ stagesRun' =
                    stagesRun \cup { <<3, iDecay, "pTfit">>, <<3, iDecay, "noBinFit">> }
               /\ pTBin' = -1
               /\ Post3Continue
          ELSE /\ pTBin' = bin
               /\ stagesRun' = stagesRun \cup { <<3, iDecay, "pTfit">> }
               /\ pc' = "post3_cosp"
               /\ UNCHANGED << isSelected3ProngCand, cutStatus3Prong, iDecay >>
       /\ lastStage' = StageRecord(3, Triple, iDecay, "pTfit", bin, TRUE,
                                   isSelected3ProngCand, isSelected3ProngCand')
  /\ UNCHANGED << iPos1, iNeg1, iThird, loop3, fit, passed2, passed3, preselLog,
                  whichHypo3Prong, isSelected2ProngCand, cutStatus2Prong,
                  whichHypo2Prong >>
  /\ outUnchanged /\ cfgUnchanged

Post3_cosp ==
  /\ pc = "post3_cosp"
  /\ LET ran == StageOn(isSelected3ProngCand, iDecay) IN
       /\ IF ran
          THEN /\ stagesRun' = stagesRun \cup { <<3, iDecay, "cosp">> }
               /\ IF fit.cpa < get(cut3Prong[iDecay], pTBin, cospIndex3(iDecay))
                  THEN /\ isSelected3ProngCand' = CLRBIT(isSelected3ProngCand, iDecay)
                       /\ cutStatus3Prong' = setCutStatusFalse(cutStatus3Prong, iDecay, 2)
                  ELSE UNCHANGED << isSelected3ProngCand, cutStatus3Prong >>
          ELSE UNCHANGED << stagesRun, isSelected3ProngCand, cutStatus3Prong >>
       /\ lastStage' = StageRecord(3, Triple, iDecay, "cosp", pTBin, ran,
                                   isSelected3ProngCand, isSelected3ProngCand')
  /\ pc' = "post3_decL"
  /\ UNCHANGED << iPos1, iNeg1, iThird, loop3, iDecay, pTBin, fit, passed2, passed3,
                  preselLog, whichHypo3Prong, isSelected2ProngCand, cutStatus2Prong,
                  whichHypo2Prong >>
  /\ outUnchanged /\ cfgUnchanged

Post3_decL ==
  /\ pc = "post3_decL"
  /\ LET ran == StageOn(isSelected3ProngCand, iDecay) IN
       /\ IF ran
          THEN /\ stagesRun' = stagesRun \cup { <<3, iDecay, "decL">> }
               /\ IF fit.decL < get(cut3Prong[iDecay], pTBin, decLenIndex(iDecay))
                  THEN /\ isSelected3ProngCand' = CLRBIT(isSelected3ProngCand, iDecay)
                       /\ cutStatus3Prong' = setCutStatusFalse(cutStatus3Prong, iDecay, 3)
                  ELSE UNCHANGED << isSelected3ProngCand, cutStatus3Prong >>
          ELSE UNCHANGED << stagesRun, isSelected3ProngCand, cutStatus3Prong >>
       /\ lastStage' = StageRecord(3, Triple, iDecay, "decL", pTBin, ran,
                                   isSelected3ProngCand, isSelected3ProngCand')
  /\ pTBin' = -1
  /\ Post3Continue
  /\ UNCHANGED << iPos1, iNeg1, iThird, loop3, fit, passed2, passed3, preselLog,
                  whichHypo3Prong, isSelected2ProngCand, cutStatus2Prong,
                  whichHypo2Prong >>
  /\ outUnchanged /\ cfgUnchanged

\* outside debug mode a triple with no decay left is dropped; otherwise its
\* row is written, with its cut-status row in debug mode
Fill3 ==
  /\ pc = "fill3"
  /\ IF DropTriple
     THEN UNCHANGED << rowTrackIndexProng3, rowProng3CutStatus >>
     ELSE /\ rowTrackIndexProng3' =
               Append(rowTrackIndexProng3,
                      << Triple[1], Triple[2], Triple[3], isSelected3ProngCand >>)
          /\ rowProng3CutStatus' =
               IF debug
               THEN Append(rowProng3CutStatus,
                           [i \in Decays3 |-> PackStatus(cutStatus3Prong[i], nCuts3Prong)])
               ELSE rowProng3CutStatus
  /\ Continue3
  /\ fit' = NoFit
  /\ UNCHANGED << iPos1, iNeg1, loop3, iDecay, pTBin, passed2, passed3, stagesRun,
                  lastStage, preselLog, rowTrackIndexProng2, rowProng2CutStatus >>
  /\ selUnchanged /\ cfgUnchanged

(***************************************************************************)
(* process() returns and is called for the next collision.  Its locals are *)
(* indeterminate again; the output tables keep their rows.                 *)
(***************************************************************************)
NextCollision ==
  /\ pc = "done"
  /\ iCollision < MaxCollisions
  /\ Len(tracks) <= MaxTracksRepeat
  /\ iCollision' = iCollision + 1
  /\ pc' = "pos1"
  /\ iPos1' = 1
  /\ iNeg1' = 0
  /\ iThird' = 0
  /\ loop3' = "none"
  /\ iDecay' = 0
  /\ pTBin' = -1
  /\ isSelected2ProngCand' = 0
  /\ isSelected3ProngCand' = 0
  /\ \E g \in Indeterminate :
       EnterProcess(g, whichHypo2Prong', whichHypo3Prong', cutStatus2Prong',
                    cutStatus3Prong')
  /\ fit' = NoFit
  /\ stagesRun' = {}
  /\ lastStage' = NoStage
  /\ UNCHANGED << debug, do3prong, cut2Prong, pTBins2Prong, cut3Prong, pTBins3Prong,
                  tracks, fitter, passed2, passed3, preselLog, binVars, cascVars,
                  cacheVars, auxVars >>
  /\ outUnchanged

(***************************************************************************)
(* The specification of process().                                         *)
(***************************************************************************)
Next ==
  \/ NextPos1
  \/ NextNeg1
  \/ Pre2_pT
  \/ Pre2_mass
  \/ Pre2_d0d0
  \/ Fit2
  \/ Post2_pT
  \/ Post2_cosp
  \/ Fill2
  \/ Sec3
  \/ NextPos2
  \/ NextNeg2
  \/ Pre3_pT
  \/ Pre3_mass
  \/ Fit3
  \/ Post3_pT
  \/ Post3_cosp
  \/ Post3_decL
  \/ Fill3
  \/ NextCollision

Spec == Init /\ [][Next]_vars

(***************************************************************************)
(* The pT-bin lookup on its own: an edge vector is drawn, and values are   *)
(* looked up in it two at a time.                                          *)
(***************************************************************************)
\* the strictly increasing edge vectors with edges in 0..MaxEdge
EdgeVectors ==
  { e \in UNION { [1..n -> 0..MaxEdge] : n \in 2..(MaxEdge + 1) } :
      \A k \in 1..(Len(e) - 1) : e[k] < e[k + 1] }

BinValues == (-1)..(MaxEdge + 1)

\* process() is not run: its configuration apart from the 2-prong tables,
\* and its locals
SkimLocalsIdle ==
  /\ debug = FALSE
  /\ do3prong = 0
  /\ cut3Prong = CutConfigs3Prong[1].cuts
  /\ pTBins3Prong = CutConfigs3Prong[1].bins
  /\ tracks = <<>>
  /\ fitter = [odd |-> NoFit, even |-> NoFit]
  /\ pc = "idle"
  /\ iCollision = 0
  /\ iPos1 = 0
  /\ iNeg1 = 0
  /\ iThird = 0
  /\ loop3 = "none"
  /\ iDecay = 0
  /\ pTBin = -1
  /\ isSelected2ProngCand = 0
  /\ isSelected3ProngCand = 0
  /\ EnterProcess(0, whichHypo2Prong, whichHypo3Prong, cutStatus2Prong,
                  cutStatus3Prong)
  /\ fit = NoFit
  /\ rowTrackIndexProng2 = <<>>
  /\ rowProng2CutStatus = <<>>
  /\ rowTrackIndexProng3 = <<>>
  /\ rowProng3CutStatus = <<>>
  /\ passed2 = <<>>
  /\ passed3 = <<>>
  /\ stagesRun = {}
  /\ lastStage = NoStage
  /\ preselLog = <<>>

SkimIdle ==
  /\ cut2Prong = CutConfigs2Prong[1].cuts
  /\ pTBins2Prong = CutConfigs2Prong[1].bins
  /\ SkimLocalsIdle

InitFindBin ==
  /\ SkimIdle
  /\ AuxIdle
  /\ binEdges \in EdgeVectors
  /\ binValue = <<>>
  /\ binResult = <<>>
  /\ CascIdle
  /\ CacheIdle

LookupBin ==
  /\ pc = "idle"
  /\ \E v1 \in BinValues, v2 \in BinValues :
       /\ binValue' = << v1, v2 >>
       /\ binResult' = << findBin(binEdges, v1), findBin(binEdges, v2) >>
  /\ UNCHANGED << binEdges, skimVars, cascVars, cacheVars, auxVars >>

NextFindBin == LookupBin

SpecFindBin == InitFindBin /\ [][NextFindBin]_vars

(***************************************************************************)
(* HfTrackIndexSkimsCreatorCascades::process(): the loop over the          *)
(* bachelors, and for every accepted bachelor the loop over the V0s.       *)
(***************************************************************************)
InitCascades ==
  /\ SkimIdle
  /\ AuxIdle
  /\ BinIdle
  /\ CacheIdle
  /\ cascCuts \in CascadeCuts
  /\ cascTracks \in TablesUpTo(CascTrackKinds, MaxBach)
  /\ V0s \in TablesUpTo(V0Kinds, MaxV0)
  /\ cascFitter \in CascFitterModels
  /\ cpc = "bach"
  /\ iBach = 1
  /\ iV0 = 0
  /\ passedCasc = <<>>
  /\ rowTrackIndexCasc = <<>>

Abs(x) == IF x < 0 THEN -x ELSE x

\* RecoDecay::M: invariant mass of the daughters
M(vecs, masses) == Sqrt(M2(vecs, masses))

\* the selections on the bachelor
BachelorRejected(bach) ==
  \/ bach.isSelProng < 4
  \/ cascCuts.TPCRefitBach /\ ~bach.tpcRefit
  \/ bach.tpcNClsCrossedRows < cascCuts.minCrossedRowsBach

\* the selections on the V0 and on its daughters, and the Lc mass window of
\* the bachelor and the V0 before the fit
V0Rejected(bach, v0) ==
  \/ cascCuts.TPCRefitV0Daugh /\ (~v0.posTrack.tpcRefit \/ ~v0.negTrack.tpcRefit)
  \/ v0.posTrack.tpcNClsCrossedRows < cascCuts.minCrossedRowsV0Daugh
  \/ v0.negTrack.tpcNClsCrossedRows < cascCuts.minCrossedRowsV0Daugh
  \/ v0.posTrack.pt < cascCuts.ptMin
  \/ v0.negTrack.pt < cascCuts.ptMin
  \/ Abs(v0.posTrack.eta) > cascCuts.etaMax
  \/ Abs(v0.negTrack.eta) > cascCuts.etaMax
  \/ Abs(v0.mK0Short - massK0s) > cascCuts.cutInvMassV0
  \/ v0.v0cosPA < cascCuts.cosPAV0
  \/ /\ cascCuts.cutCascInvMassLc >= 0
     /\ Abs(M(<< bach.p, v0.p >>, << massP, massK0s >>) - massLc)
          > cascCuts.cutCascInvMassLc

\* fitter.process(trackV0, trackBach)
cascProcess(v, b) == IF (v + b) % 2 = 1 THEN cascFitter.odd ELSE cascFitter.even

cascUnchanged ==
  UNCHANGED << skimVars, binVars, cacheVars, auxVars, cascCuts, cascTracks, V0s,
               cascFitter >>

BachelorLoop ==
  /\ cpc = "bach"
  /\ IF iBach > Len(cascTracks)
     THEN /\ cpc' = "done"
          /\ UNCHANGED << iBach, iV0 >>
     ELSE IF BachelorRejected(cascTracks[iBach])
     THEN /\ cpc' = "bach"
          /\ iBach' = iBach + 1
          /\ UNCHANGED iV0
     ELSE /\ cpc' = "v0"
          /\ iV0' = 1
          /\ UNCHANGED iBach
  /\ UNCHANGED << passedCasc, rowTrackIndexCasc >>
  /\ cascUnchanged

V0Loop ==
  /\ cpc = "v0"
  /\ IF iV0 > Len(V0s)
     THEN /\ cpc' = "bach"
          /\ iBach' = iBach + 1
          /\ UNCHANGED iV0
     ELSE IF V0Rejected(cascTracks[iBach], V0s[iV0])
     THEN /\ cpc' = "v0"
          /\ iV0' = iV0 + 1
          /\ UNCHANGED iBach
     ELSE /\ cpc' = "cascfit"
          /\ UNCHANGED << iBach, iV0 >>
  /\ UNCHANGED << passedCasc, rowTrackIndexCasc >>
  /\ cascUnchanged

\* the fit of the V0 and the bachelor, the pT cut on the cascade candidate
\* and the row of the accepted candidate
FitCascade ==
  /\ cpc = "cascfit"
  /\ passedCasc' = Append(passedCasc, << iBach, iV0 >>)
  /\ LET nCand2 == cascProcess(iV0, iBach).nCand
         ptCascCand == cascProcess(iV0, iBach).pt
     IN IF nCand2 = 0
        THEN UNCHANGED rowTrackIndexCasc
        ELSE IF ptCascCand < cascCuts.cutCascPtCandMin
        THEN UNCHANGED rowTrackIndexCasc
        ELSE rowTrackIndexCasc' = Append(rowTrackIndexCasc, << iBach, iV0, 1 >>)
  /\ cpc' = "v0"
  /\ iV0' = iV0 + 1
  /\ UNCHANGED iBach
  /\ cascUnchanged

NextCascades ==
  \/ BachelorLoop
  \/ V0Loop
  \/ FitCascade

(***************************************************************************)
(* The two creators of the file: a run is a run of either.                 *)
(***************************************************************************)
InitCreators == Init \/ InitCascades

NextCreators == Next \/ NextCascades

SpecCreators == InitCreators /\ [][NextCreators]_vars

(***************************************************************************)
(* init() and overlapping evaluations of is2ProngPreselected.  The         *)
(* function keeps the columns of massMin, massMax and d0d0 in static       *)
(* vectors, which every call resizes and fills again before it reads them. *)
(* resize() of a vector is followed in two steps: it finds the size, and   *)
(* it installs a new value-initialised buffer when that size was too       *)
(* small.  Columns are counted from 1, so that a value-initialised element *)
(* names the first column.                                                 *)
(***************************************************************************)
ValueInitialised == 1

\* a cut table of D0ToPiK without the column d0d0
CutsWithoutD0d0 ==
  LabeledArray([massMin |-> 1, massMax |-> 2, cosp |-> 3],
               << <<6, 8, 4>>, <<6, 8, 4>> >>)

\* the configurations a task may be given: two complete ones, one with a
\* table that lacks a cut name, one with bin edges out of order
CacheConfigs ==
  { [cuts |-> CutConfigs2Prong[1].cuts, bins |-> CutConfigs2Prong[1].bins],
    [cuts |-> CutConfigs2Prong[2].cuts, bins |-> CutConfigs2Prong[2].bins],
    [cuts |-> [CutConfigs2Prong[1].cuts EXCEPT ![0] = CutsWithoutD0d0],
     bins |-> CutConfigs2Prong[1].bins],
    [cuts |-> CutConfigs2Prong[1].cuts,
     bins |-> [CutConfigs2Prong[1].bins EXCEPT ![0] = <<5, 0, 10>>]] }

\* the cut names the 2-prong selections look up
CutNames2Prong == {"massMin", "massMax", "d0d0", "cosp"}

Sorted(edges) == \A k \in 1..(Len(edges) - 1) : edges[k] < edges[k + 1]

ConfigValid ==
  \A i \in Decays2 :
    /\ CutNames2Prong \subseteq DOMAIN cut2Prong[i].colmap
    /\ Sorted(pTBins2Prong[i])

\* the arguments of is2ProngPreselected for a pair of tracks
CandOf(t0, t1) == [mom |-> << pVec(t0), pVec(t1) >>, dca |-> << t0.dcaXY, t1.dcaXY >>]

CacheCandidates ==
  { CandOf(Track(1, 3, -3, 1, 0, 2), Track(-1, 3, -3, 2, 0, 1)),
    CandOf(Track(1, 3, 2, 2, 0, -1), Track(-1, 3, -3, 2, 0, 1)),
    CandOf(Track(1, 2, 0, 3, 0, 3), Track(-1, 1, -3, 0, 0, -2)) }

InitCaches ==
  /\ SkimLocalsIdle
  /\ AuxIdle
  /\ BinIdle
  /\ CascIdle
  /\ \E c \in CacheConfigs :
       /\ cut2Prong = c.cuts
       /\ pTBins2Prong = c.bins
  /\ initDone = FALSE
  /\ staticMassMinIndex = <<>>
  /\ staticMassMaxIndex = <<>>
  /\ staticD0d0Index = <<>>
  /\ wpc = [w \in Workers |-> "idle"]
  /\ wSeen = [w \in Workers |-> 0]
  /\ wDecay = [w \in Workers |-> 0]
  /\ wCand \in [Workers -> CacheCandidates]
  /\ wSel = [w \in Workers |-> 0]
  /\ unregistered = {}

cacheFrame == UNCHANGED << skimVars, binVars, cascVars, auxVars, wCand >>

\* init(): the configured tables are copied, nothing is checked
TaskInit ==
  /\ ~initDone
  /\ \A w \in Workers : wpc[w] = "idle"
  /\ initDone' = TRUE
  /\ UNCHANGED << staticMassMinIndex, staticMassMaxIndex, staticD0d0Index, wpc, wSeen,
                  wDecay, wSel, unregistered >>
  /\ cacheFrame

\* is2ProngPreselected is entered with isSelected = n2ProngBit; resize()
\* finds the size of the static vectors
CallPreselected(w) ==
  /\ initDone
  /\ wpc[w] = "idle"
  /\ wpc' = [wpc EXCEPT ![w] = "resize"]
  /\ wSeen' = [wSeen EXCEPT ![w] = Len(staticMassMinIndex)]
  /\ wSel' = [wSel EXCEPT ![w] = n2ProngBit]
  /\ UNCHANGED << initDone, staticMassMinIndex, staticMassMaxIndex, staticD0d0Index,
                  wDecay, unregistered >>
  /\ cacheFrame

\* the vector left by resize() when it found seen elements
Resized(vec, seen) ==
  IF seen < n2ProngDecays
  THEN [k \in 1..n2ProngDecays |-> IF k <= seen THEN vec[k] ELSE ValueInitialised]
  ELSE vec

ResizeEnd(w) ==
  /\ wpc[w] = "resize"
  /\ staticMassMinIndex' = Resized(staticMassMinIndex, wSeen[w])
  /\ staticMassMaxIndex' = Resized(staticMassMaxIndex, wSeen[w])
  /\ staticD0d0Index' = Resized(staticD0d0Index, wSeen[w])
  /\ wpc' = [wpc EXCEPT ![w] = "cache"]
  /\ wDecay' = [wDecay EXCEPT ![w] = 0]
  /\ UNCHANGED << initDone, wSeen, wSel, unregistered >>
  /\ cacheFrame

\* "colmap.find(name)->second": the column of name, or for a name the table
\* lacks what lies behind the end of the map, here any column of the table
Second(table, name, garbage) ==
  IF name \in DOMAIN table.colmap THEN table.colmap[name] ELSE garbage

\* one round of the loop of cacheIndices
CacheIndex(w) ==
  /\ wpc[w] = "cache"
  /\ LET i == wDecay[w]
         table == cut2Prong[i]
     IN /\ \E garbage \in 1..Len(table.rows[1]) :
             /\ staticMassMinIndex' =
                  [staticMassMinIndex EXCEPT ![i + 1] = Second(table, "massMin", garbage)]
             /\ staticMassMaxIndex' =
                  [staticMassMaxIndex EXCEPT ![i + 1] = Second(table, "massMax", garbage)]
             /\ staticD0d0Index' =
                  [staticD0d0Index EXCEPT ![i + 1] = Second(table, "d0d0", garbage)]
        /\ unregistered' =
             unregistered \cup ({"massMin", "massMax", "d0d0"} \ DOMAIN table.colmap)
        /\ IF i + 1 < n2ProngDecays
           THEN /\ wDecay' = [wDecay EXCEPT ![w] = i + 1]
                /\ UNCHANGED wpc
           ELSE /\ wDecay' = [wDecay EXCEPT ![w] = 0]
                /\ wpc' = [wpc EXCEPT ![w] = "eval"]
  /\ UNCHANGED << initDone, wSeen, wSel >>
  /\ cacheFrame

\* the bins findBin may answer: its binary search is defined on ordered
\* edges only
BinsFound(edges, value) ==
  IF Sorted(edges) THEN { findBin(edges, value) } ELSE (-1)..(Len(edges) - 2)

\* the mass and d0d0 cuts of one decay outside debug mode, with the columns
\* read from the static vectors
PreselectedWith(table, bin, cand, masses, cMin, cMax, cD0) ==
  LET massMin == get(table, bin, cMin)
      massMax == get(table, bin, cMax)
  IN /\ (massMin >= 0 /\ massMax > 0) =>
          \E k \in 1..2 : /\ massMin ^ 2 <= M2(cand.mom, masses[k])
                          /\ M2(cand.mom, masses[k]) < massMax ^ 2
     /\ ~ImpParProductCut(cand.dca[1] * cand.dca[2], get(table, bin, cD0))

\* one round of the loop over the decays
EvalDecay(w) ==
  /\ wpc[w] = "eval"
  /\ LET i == wDecay[w]
     IN /\ \E bin \in BinsFound(pTBins2Prong[i], Pt(wCand[w].mom) + pTTolerance) :
             wSel' =
               [wSel EXCEPT ![w] =
                  IF /\ bin # -1
                     /\ PreselectedWith(cut2Prong[i], bin, wCand[w], arrMass2Prong(i),
                                        staticMassMinIndex[i + 1],
                                        staticMassMaxIndex[i + 1],
                                        staticD0d0Index[i + 1])
                  THEN @ ELSE CLRBIT(@, i)]
        /\ IF i + 1 < n2ProngDecays
           THEN /\ wDecay' = [wDecay EXCEPT ![w] = i + 1]
                /\ UNCHANGED wpc
           ELSE /\ wDecay' = [wDecay EXCEPT ![w] = 0]
                /\ wpc' = [wpc EXCEPT ![w] = "done"]
  /\ UNCHANGED << initDone, staticMassMinIndex, staticMassMaxIndex, staticD0d0Index,
                  wSeen, unregistered >>
  /\ cacheFrame

NextCaches ==
  \/ TaskInit
  \/ \E w \in Workers : CallPreselected(w)
  \/ \E w \in Workers : ResizeEnd(w)
  \/ \E w \in Workers : CacheIndex(w)
  \/ \E w \in Workers : EvalDecay(w)

SpecCaches == InitCaches /\ [][NextCaches]_vars

(***************************************************************************)
(* Properties.  The stage recorded in lastStage is read back with the      *)
(* tables and momenta it was evaluated on.                                 *)
(***************************************************************************)
StageMom ==
  IF lastStage.cand = 2
  THEN << pVec(tracks[lastStage.tuple[1]]), pVec(tracks[lastStage.tuple[2]]) >>
  ELSE arrMom3(lastStage.tuple)

StageCut ==
  IF lastStage.cand = 2 THEN cut2Prong[lastStage.decay] ELSE cut3Prong[lastStage.decay]

StageEdges ==
  IF lastStage.cand = 2 THEN pTBins2Prong[lastStage.decay]
  ELSE pTBins3Prong[lastStage.decay]

StageMasses ==
  IF lastStage.cand = 2 THEN arrMass2Prong(lastStage.decay)
  ELSE arrMass3Prong(lastStage.decay)

StageHypo ==
  IF lastStage.cand = 2 THEN whichHypo2Prong[lastStage.decay]
  ELSE whichHypo3Prong[lastStage.decay]

StageMassMin == get(StageCut, lastStage.bin, find(StageCut, "massMin"))

StageMassMax == get(StageCut, lastStage.bin, find(StageCut, "massMax"))

\* squared invariant mass of mass ordering k of the recorded stage
StageM2(k) == M2(StageMom, StageMasses[k])

\* ordering k lies in the half-open mass window of the recorded stage
InsideWindow(k) == StageMassMin ^ 2 <= StageM2(k) /\ StageM2(k) < StageMassMax ^ 2

\* no bit of new is outside old
BitsKept(old, new, n) == \A i \in 0..(n - 1) : TESTBIT(new, i) => TESTBIT(old, i)

\* C1: between the initialisation of the bitmap of a pair or of a triple and
\* the writing of its row, no step of any stage sets a bit that is not set
\* already: the bitmap only loses bits.
C1_BitmapOnlyLosesBits ==
  [][ /\ (pc # "neg1" => BitsKept(isSelected2ProngCand, isSelected2ProngCand',
                                   n2ProngDecays))
      /\ (pc \notin {"pos2", "neg2"} =>
            BitsKept(isSelected3ProngCand, isSelected3ProngCand', n3ProngDecays)) ]_vars

\* in debug mode a later cut was evaluated for a decay whose bit an earlier
\* stage had cleared, and the bit stayed cleared
C1_LaterStageOnClearedBit ==
  /\ debug
  /\ lastStage.stage \in {"d0d0", "cosp", "decL"}
  /\ lastStage.ran
  /\ ~TESTBIT(lastStage.before, lastStage.decay)
  /\ ~TESTBIT(lastStage.after, lastStage.decay)

\* C2: two preselections that were given the same momenta and impact
\* parameters (the cut tables and bin edges are those of the run) returned
\* the same bitmap and the same whichHypo entries, whatever was evaluated
\* before each of them.
C2_SameInputsSameOutputs ==
  \A j \in DOMAIN preselLog : \A k \in DOMAIN preselLog :
    (/\ preselLog[j].n = preselLog[k].n
     /\ preselLog[j].mom = preselLog[k].mom
     /\ preselLog[j].dca = preselLog[k].dca)
      => /\ preselLog[j].isSelected = preselLog[k].isSelected
         /\ preselLog[j].whichHypo = preselLog[k].whichHypo

\* C3: no pair and no triple handed to the selection or written to an output
\* table holds the same track in two positions.
C3_NoTrackTwiceInTuple ==
  /\ \A k \in DOMAIN passed2 : passed2[k][1] # passed2[k][2]
  /\ \A k \in DOMAIN passed3 :
       Cardinality({ passed3[k][1], passed3[k][2], passed3[k][3] }) = 3
  /\ \A k \in DOMAIN rowTrackIndexProng2 :
       rowTrackIndexProng2[k][1] # rowTrackIndexProng2[k][2]
  /\ \A k \in DOMAIN rowTrackIndexProng3 :
       Cardinality({ rowTrackIndexProng3[k][1], rowTrackIndexProng3[k][2],
                     rowTrackIndexProng3[k][3] }) = 3

\* C4: when the mass cut was evaluated, mass ordering k is accepted (its bit
\* of whichHypo is set) exactly if massMin^2 <= m_k^2 < massMax^2, for pairs
\* and for triples.
C4_MassWindowHalfOpen ==
  (lastStage.stage = "mass" /\ lastStage.ran) =>
    /\ (StageHypo \in {1, 3}) <=> InsideWindow(1)
    /\ (StageHypo \in {2, 3}) <=> InsideWindow(2)

\* the first ordering sits exactly on the upper edge of the window and is
\* rejected, the second is accepted
C4_UpperEdgeRejected ==
  /\ lastStage.stage = "mass"
  /\ lastStage.ran
  /\ StageM2(1) = StageMassMax ^ 2
  /\ StageHypo = 2

\* C5: after the mass cut was evaluated, whichHypo is 0, 1, 2 or 3 as
\* neither, only the first, only the second or both orderings are inside the
\* window, and the mass stage clears the bit of the decay exactly if it is 0.
C5_WhichHypoValue ==
  (lastStage.stage = "mass" /\ lastStage.ran) =>
    /\ StageHypo = (IF InsideWindow(1) THEN 1 ELSE 0) + (IF InsideWindow(2) THEN 2 ELSE 0)
    /\ (/\ TESTBIT(lastStage.before, lastStage.decay)
        /\ ~TESTBIT(lastStage.after, lastStage.decay)) <=> StageHypo = 0

\* only the first ordering is inside the window: whichHypo is 1 and the bit
\* of the decay is kept
C5_OnlyFirstOrdering ==
  /\ lastStage.stage = "mass"
  /\ lastStage.ran
  /\ InsideWindow(1) /\ ~InsideWindow(2)
  /\ StageHypo = 1
  /\ TESTBIT(lastStage.after, lastStage.decay)

\* C6: when the row of the pT bin has a negative massMin or a massMax that is
\* not positive, the mass stage leaves the bitmap as it is and whichHypo is 3.
C6_DisabledMassCutPasses ==
  (lastStage.stage = "mass" /\ (StageMassMin < 0 \/ StageMassMax <= 0)) =>
    /\ lastStage.after = lastStage.before
    /\ StageHypo = 3

\* massMin is negative and both orderings are outside the window the row
\* would describe, yet the bit is kept and whichHypo is 3
C6_DisabledCutMassOutside ==
  /\ lastStage.stage = "mass"
  /\ StageMassMin < 0
  /\ StageMassMax > 0
  /\ StageM2(1) >= StageMassMax ^ 2
  /\ StageM2(2) >= StageMassMax ^ 2
  /\ StageHypo = 3
  /\ TESTBIT(lastStage.after, lastStage.decay)

\* C7, as the code has it: the preselection rejects a decay at its pT stage
\* exactly if the pT of the vector sum of the daughter momenta plus
\* pTTolerance lies outside [edges[0], edges[k]) of the decay.
C7_PreFitBinOfPtPlusTolerance ==
  lastStage.stage = "pT" =>
    LET pT == Pt(StageMom) + pTTolerance IN
      (~TESTBIT(lastStage.after, lastStage.decay))
        <=> (pT < StageEdges[1] \/ pT >= StageEdges[Len(StageEdges)])

\* C7, as the claim has it: the decay is rejected at the pT stage exactly if
\* the pT of the vector sum lies outside [edges[0], edges[k]).
C7_PreFitBinOfPt ==
  lastStage.stage = "pT" =>
    LET pT == Pt(StageMom) IN
      (~TESTBIT(lastStage.after, lastStage.decay))
        <=> (pT < StageEdges[1] \/ pT >= StageEdges[Len(StageEdges)])

\* the pT of the vector sum is inside the range of the decay, and the decay
\* is rejected at the pT stage because of the tolerance
C7_InsideRangeRejected ==
  /\ lastStage.stage = "pT"
  /\ StageEdges[1] <= Pt(StageMom)
  /\ Pt(StageMom) < StageEdges[Len(StageEdges)]
  /\ lastStage.bin = -1
  /\ ~TESTBIT(lastStage.after, lastStage.decay)

\* C8: for strictly increasing edges the lookup returns -1 outside
\* [edges[0], edges[k]) and otherwise the bin i with
\* edges[i] <= pT < edges[i+1]; the bin does not decrease with pT over the
\* covered range, and the lookup of edges[i] is i for every i < k.
C8_FindBinContract ==
  binResult # <<>> =>
    LET k == Len(binEdges) - 1
        covered(v) == binEdges[1] <= v /\ v < binEdges[k + 1]
    IN /\ \A j \in 1..2 :
            /\ ~covered(binValue[j]) => binResult[j] = -1
            /\ covered(binValue[j]) =>
                 /\ binResult[j] \in 0..(k - 1)
                 /\ binEdges[binResult[j] + 1] <= binValue[j]
                 /\ binValue[j] < binEdges[binResult[j] + 2]
            /\ \A i \in 0..(k - 1) : binValue[j] = binEdges[i + 1] => binResult[j] = i
       /\ (covered(binValue[1]) /\ covered(binValue[2]) /\ binValue[1] <= binValue[2])
            => binResult[1] <= binResult[2]

\* an inner edge is looked up and found in the bin it opens, and a value at
\* the last edge is found in no bin
C8_InnerEdgeAndLastEdge ==
  /\ Len(binEdges) >= 3
  /\ binResult # <<>>
  /\ binValue[1] = binEdges[2]
  /\ binResult[1] = 1
  /\ binValue[2] = binEdges[Len(binEdges)]
  /\ binResult[2] = -1

\* C9: when the selection of a pair or of a triple starts, its bitmap is
\* 2^N - 1, N the number of decays, whatever the tuple before left; the
\* bitmaps never hold a bit at position N or above.
C9_BitmapFreshAllSet ==
  /\ (pc = "pre2_pT" /\ iDecay = 0) => isSelected2ProngCand = 2 ^ n2ProngDecays - 1
  /\ (pc = "pre3_pT" /\ iDecay = 0) => isSelected3ProngCand = 2 ^ n3ProngDecays - 1
  /\ isSelected2ProngCand \in 0..(2 ^ n2ProngDecays - 1)
  /\ isSelected3ProngCand \in 0..(2 ^ n3ProngDecays - 1)

\* the selection of a pair starts with all bits set after an earlier pair had
\* lost bits
C9_FreshAfterRejectedPair ==
  /\ pc = "pre2_pT"
  /\ iDecay = 0
  /\ Len(passed2) >= 2
  /\ isSelected2ProngCand = 2 ^ n2ProngDecays - 1
  /\ \E k \in DOMAIN preselLog :
       preselLog[k].n = 2 /\ preselLog[k].isSelected < 2 ^ n2ProngDecays - 1

\* C10, as the code has it: a decay for which the preselection finds no pT
\* bin has its bit cleared, its pT entry of the debug cut status false, and
\* no mass or impact-parameter cut evaluated (their entries stay true); a
\* decay for which the selection after the fit finds no pT bin has its bit
\* cleared, its pT entry false and no pointing-angle or decay-length cut
\* evaluated (their entries stay true).
C10_NoBinEndsItsSelection ==
  /\ \A i \in Decays2 :
       /\ << 2, i, "noBin" >> \in stagesRun =>
            /\ ~TESTBIT(isSelected2ProngCand, i)
            /\ << 2, i, "mass" >> \notin stagesRun
            /\ << 2, i, "d0d0" >> \notin stagesRun
            /\ debug => (/\ ~cutStatus2Prong[i][0]
                         /\ cutStatus2Prong[i][1]
                         /\ cutStatus2Prong[i][2])
       /\ << 2, i, "noBinFit" >> \in stagesRun =>
            /\ ~TESTBIT(isSelected2ProngCand, i)
            /\ << 2, i, "cosp" >> \notin stagesRun
            /\ debug => (~cutStatus2Prong[i][0] /\ cutStatus2Prong[i][3])
  /\ \A i \in Decays3 :
       /\ << 3, i, "noBin" >> \in stagesRun =>
            /\ ~TESTBIT(isSelected3ProngCand, i)
            /\ << 3, i, "mass" >> \notin stagesRun
            /\ debug => (~cutStatus3Prong[i][0] /\ cutStatus3Prong[i][1])
       /\ << 3, i, "noBinFit" >> \in stagesRun =>
            /\ ~TESTBIT(isSelected3ProngCand, i)
            /\ << 3, i, "cosp" >> \notin stagesRun
            /\ << 3, i, "decL" >> \notin stagesRun
            /\ debug => (/\ ~cutStatus3Prong[i][0]
                         /\ cutStatus3Prong[i][2]
                         /\ cutStatus3Prong[i][3])

\* C10, as the claim has it: a decay for which the preselection finds no pT
\* bin has its bit cleared, no mass, impact-parameter, pointing-angle or
\* decay-length cut evaluated, and in debug mode a cut-status row with the pT
\* entry false and every other entry true.
C10_NoBinOnlyPtEntryFalse ==
  /\ \A i \in Decays2 :
       << 2, i, "noBin" >> \in stagesRun =>
         /\ ~TESTBIT(isSelected2ProngCand, i)
         /\ \A s \in {"mass", "d0d0", "cosp"} : << 2, i, s >> \notin stagesRun
         /\ debug => cutStatus2Prong[i] = [c \in 0..(nCuts2Prong - 1) |-> c # 0]
  /\ \A i \in Decays3 :
       << 3, i, "noBin" >> \in stagesRun =>
         /\ ~TESTBIT(isSelected3ProngCand, i)
         /\ \A s \in {"mass", "cosp", "decL"} : << 3, i, s >> \notin stagesRun
         /\ debug => cutStatus3Prong[i] = [c \in 0..(nCuts3Prong - 1) |-> c # 0]

\* in debug mode the row of a pair is about to be written, and one of its
\* decays found no pT bin before the fit and none after it: only its pT
\* entry is false
C10_NoBinBeforeAndAfterFit ==
  /\ debug
  /\ pc = "fill2"
  /\ isSelected2ProngCand > 0
  /\ \E i \in Decays2 :
       /\ << 2, i, "noBin" >> \in stagesRun
       /\ << 2, i, "noBinFit" >> \in stagesRun
       /\ cutStatus2Prong[i] = [c \in 0..(nCuts2Prong - 1) |-> c # 0]

(***************************************************************************)
(* What the 2-prong preselection is expected to answer for decay i, from   *)
(* the momenta and impact parameters of the pair and the tables of decay i *)
(* alone.                                                                  *)
(***************************************************************************)
\* pT bin of the pair in the edges of decay i
PreBin2(mom, i) == findBin(pTBins2Prong[i], Pt(mom) + pTTolerance)

\* the mass window of row bin is switched off, or one of the two orderings
\* lies in it
MassAccepted(cut, bin, mom, masses) ==
  LET massMin == get(cut, bin, find(cut, "massMin"))
      massMax == get(cut, bin, find(cut, "massMax"))
  IN \/ massMin < 0
     \/ massMax <= 0
     \/ \E k \in 1..2 : /\ massMin ^ 2 <= M2(mom, masses[k])
                        /\ M2(mom, masses[k]) < massMax ^ 2

\* the d0d0 maximum of the row of the pair's pT bin
D0D0Max(mom, i) == get(cut2Prong[i], PreBin2(mom, i), find(cut2Prong[i], "d0d0"))

PreAccepted2(mom, dca, i) ==
  IF PreBin2(mom, i) = -1 THEN FALSE
  ELSE /\ MassAccepted(cut2Prong[i], PreBin2(mom, i), mom, arrMass2Prong(i))
       /\ dca[1] * dca[2] <= D0D0Max(mom, i)

C13_RowsAcceptedOutsideDebugTriples ==
  /\ \A k \in DOMAIN rowTrackIndexProng2 : rowTrackIndexProng2[k][3] > 0
  /\ ~debug => \A k \in DOMAIN rowTrackIndexProng3 : rowTrackIndexProng3[k][4] > 0

\* C13 as stated: every row of either index table carries a bitmap with a bit
\* set, in debug mode as well.
C13_EveryRowAccepted ==
  /\ \A k \in DOMAIN rowTrackIndexProng2 : rowTrackIndexProng2[k][3] > 0
  /\ \A k \in DOMAIN rowTrackIndexProng3 : rowTrackIndexProng3[k][4] > 0

\* outside debug mode a fitted triple has lost its last bit in the selection
\* after the fit, the loop has moved on and no row holds the triple; a pair
\* has been written before
C13_RejectedTripleLeftNoRow ==
  /\ ~debug
  /\ pc \in {"pos2", "neg2"}
  /\ lastStage.cand = 3
  /\ lastStage.decay = n3ProngDecays - 1
  /\ lastStage.stage \in {"pTfit", "decL"}
  /\ lastStage.after = 0
  /\ \A k \in DOMAIN rowTrackIndexProng3 :
       << rowTrackIndexProng3[k][1], rowTrackIndexProng3[k][2],
          rowTrackIndexProng3[k][3] >> # lastStage.tuple
  /\ rowTrackIndexProng2 # <<>>

\* number of entries of the sequence q equal to x
RECURSIVE CountIn(_, _)
CountIn(q, x) ==
  IF q = <<>> THEN 0 ELSE (IF Head(q) = x THEN 1 ELSE 0) + CountIn(Tail(q), x)

\* C16: when process() returns, every pair of a positive and a negative track
\* that are both flagged for 2-prongs has been handed to the 2-prong selection
\* exactly once in each collision processed so far.
C16_EveryPairPassedOnce ==
  pc = "done" =>
    \A p \in DOMAIN tracks : \A n \in DOMAIN tracks :
      (/\ tracks[p].signed1Pt > 0
       /\ tracks[n].signed1Pt < 0
       /\ TESTBIT(tracks[p].isSelProng, Cand2Prong)
       /\ TESTBIT(tracks[n].isSelProng, Cand2Prong))
        => CountIn(passed2, << p, n >>) = iCollision

\* a collision with two positive and one negative track, all flagged for
\* 2-prongs, has been processed: two pairs share the negative track, and the
\* negative track precedes a positive one in the table
C16_TwoPairsShareATrack ==
  /\ pc = "done"
  /\ \E p \in DOMAIN tracks : \E q \in DOMAIN tracks : \E n \in DOMAIN tracks :
       /\ p # q
       /\ n < q
       /\ tracks[p].signed1Pt > 0
       /\ tracks[q].signed1Pt > 0
       /\ tracks[n].signed1Pt < 0
       /\ TESTBIT(tracks[p].isSelProng, Cand2Prong)
       /\ TESTBIT(tracks[q].isSelProng, Cand2Prong)
       /\ TESTBIT(tracks[n].isSelProng, Cand2Prong)
       /\ CountIn(passed2, << p, n >>) = 1
       /\ CountIn(passed2, << q, n >>) = 1

\* positive (s = 1) or negative (s = -1) track flagged for 3-prongs
Flagged3(k, s) ==
  /\ tracks[k].signed1Pt * s > 0
  /\ TESTBIT(tracks[k].isSelProng, Cand3Prong)

\* C17 as amended: when process() returns with 3-prong reconstruction on,
\* every triple (a, b, c) of 3-prong-flagged tracks with a and c of one sign,
\* b of the other and c behind a in the track table has been handed to the
\* 3-prong selection once per collision.
C17_EveryTripleWithThirdBehindFirst ==
  (pc = "done" /\ do3prong = 1) =>
    \A a \in DOMAIN tracks : \A b \in DOMAIN tracks : \A c \in DOMAIN tracks :
      \A s \in {1, -1} :
        (a < c /\ Flagged3(a, s) /\ Flagged3(b, -s) /\ Flagged3(c, s))
          => CountIn(passed3, << a, b, c >>) = iCollision

\* C17 as stated: every ordered triple of distinct 3-prong-flagged tracks with
\* first and third of one sign and the second of the other has been handed to
\* the 3-prong selection.
C17_EveryOrderedTriple ==
  (pc = "done" /\ do3prong = 1) =>
    \A a \in DOMAIN tracks : \A b \in DOMAIN tracks : \A c \in DOMAIN tracks :
      \A s \in {1, -1} :
        (a # c /\ Flagged3(a, s) /\ Flagged3(b, -s) /\ Flagged3(c, s))
          => CountIn(passed3, << a, b, c >>) >= 1

\* a collision with a triple of each kind has been processed: two negative
\* tracks around a positive one
C17_TripleOfNegativesPassed ==
  /\ pc = "done"
  /\ do3prong = 1
  /\ \E a \in DOMAIN tracks : \E b \in DOMAIN tracks : \E c \in DOMAIN tracks :
       /\ a < c
       /\ Flagged3(a, -1) /\ Flagged3(b, 1) /\ Flagged3(c, -1)
       /\ CountIn(passed3, << a, b, c >>) = 1
       /\ CountIn(passed3, << c, b, a >>) = 0

\* pT bin of the fitted candidate f in the edges of 2-prong decay i
PostBin2(f, i) == findBin(pTBins2Prong[i], f.pt)

\* C18: in debug mode, once a pair has gone through the 2-prong part of
\* process(), every decay with a pT bin before the fit has had its mass cut
\* (when the window is on) and its d0d0 cut evaluated, and, when the fitter
\* finds a vertex for the pair and the fitted pT has a bin, its pointing-angle
\* cut as well, whatever the earlier cuts of this or of all decays answered.
C18_DebugEvaluatesEveryStage ==
  (debug /\ pc = "sec3") =>
    \A i \in Decays2 :
      (<< 2, i, "pT" >> \in stagesRun /\ << 2, i, "noBin" >> \notin stagesRun) =>
        /\ << 2, i, "d0d0" >> \in stagesRun
        /\ LET bin == PreBin2(arrMom2, i)
               cut == cut2Prong[i]
           IN MassCutOn(get(cut, bin, find(cut, "massMin")),
                        get(cut, bin, find(cut, "massMax")))
                => << 2, i, "mass" >> \in stagesRun
        /\ (process(Pair) # NoFit /\ PostBin2(process(Pair), i) # -1)
             => << 2, i, "cosp" >> \in stagesRun

(***************************************************************************)
(* What the selections are expected to answer for decay j, from the        *)
(* candidate and the tables of decay j alone.                              *)
(***************************************************************************)
PreBin3(mom, j) == findBin(pTBins3Prong[j], Pt(mom) + pTTolerance)

PostBin3(f, j) == findBin(pTBins3Prong[j], f.pt)

PreAccepted3(mom, j) ==
  IF PreBin3(mom, j) = -1 THEN FALSE
  ELSE MassAccepted(cut3Prong[j], PreBin3(mom, j), mom, arrMass3Prong(j))

PostAccepted2(f, j) ==
  IF PostBin2(f, j) = -1 THEN FALSE
  ELSE f.cpa >= get(cut2Prong[j], PostBin2(f, j), find(cut2Prong[j], "cosp"))

PostAccepted3(f, j) ==
  IF PostBin3(f, j) = -1 THEN FALSE
  ELSE /\ f.cpa >= get(cut3Prong[j], PostBin3(f, j), find(cut3Prong[j], "cosp"))
       /\ f.decL >= get(cut3Prong[j], PostBin3(f, j), find(cut3Prong[j], "decL"))

\* whichHypo of a decay with pT bin: bit 0 for the first mass ordering in the
\* window, bit 1 for the second, both when the window is switched off
ExpectedHypo(cut, bin, mom, masses) ==
  LET massMin == get(cut, bin, find(cut, "massMin"))
      massMax == get(cut, bin, find(cut, "massMax"))
      in(k) == massMin ^ 2 <= M2(mom, masses[k]) /\ M2(mom, masses[k]) < massMax ^ 2
  IN IF massMin < 0 \/ massMax <= 0 THEN 3
     ELSE (IF in(1) THEN 1 ELSE 0) + (IF in(2) THEN 2 ELSE 0)

\* the final bit and whichHypo of every decay j of the fitted tuple that is
\* about to be written or dropped are those expected from decay j alone
FinalFromOwnDecay ==
  /\ pc = "fill2" =>
       \A j \in Decays2 :
         /\ TESTBIT(isSelected2ProngCand, j)
              <=> (/\ PreAccepted2(arrMom2, << tracks[iPos1].dcaXY, tracks[iNeg1].dcaXY >>, j)
                   /\ PostAccepted2(fit, j))
         /\ PreBin2(arrMom2, j) # -1 =>
              whichHypo2Prong[j] =
                ExpectedHypo(cut2Prong[j], PreBin2(arrMom2, j), arrMom2, arrMass2Prong(j))
  /\ pc = "fill3" =>
       \A j \in Decays3 :
         /\ TESTBIT(isSelected3ProngCand, j)
              <=> (PreAccepted3(arrMom3(Triple), j) /\ PostAccepted3(fit, j))
         /\ PreBin3(arrMom3(Triple), j) # -1 =>
              whichHypo3Prong[j] =
                ExpectedHypo(cut3Prong[j], PreBin3(arrMom3(Triple), j), arrMom3(Triple),
                             arrMass3Prong(j))

\* C19 as amended: outside debug mode no cut (mass, d0d0, pointing angle,
\* decay length) is evaluated for a decay whose bit is already cleared, while
\* the pT-bin lookup after the fit is still made for it; and the final bit and
\* whichHypo of every decay are those expected from that decay alone.
C19_NoCutAfterFailureOthersUntouched ==
  ~debug =>
    /\ (/\ lastStage.stage \in {"mass", "d0d0", "cosp", "decL"}
        /\ ~TESTBIT(lastStage.before, lastStage.decay)) => ~lastStage.ran
    /\ FinalFromOwnDecay

\* C19 as stated: outside debug mode no stage at all is evaluated for a decay
\* whose bit is already cleared, and the final bit and whichHypo of every
\* decay are those expected from that decay alone.
C19_NoStageAfterFailure ==
  ~debug =>
    /\ (/\ lastStage.stage # "none"
        /\ ~TESTBIT(lastStage.before, lastStage.decay)) => ~lastStage.ran
    /\ FinalFromOwnDecay

\* outside debug mode the pointing-angle cut of a decay rejected before the
\* fit has been skipped while another decay of the same pair is still selected
C19_CutSkippedOtherDecayAlive ==
  /\ ~debug
  /\ lastStage.cand = 2
  /\ lastStage.stage = "cosp"
  /\ ~TESTBIT(lastStage.before, lastStage.decay)
  /\ ~lastStage.ran
  /\ lastStage.after # 0

\* C20 as amended: the stages before the fit use the row of the bin of the
\* summed track momenta plus the tolerance, the stages after the fit use the
\* row of the bin of the fitted momentum; the two bins may differ.
C20_BinBeforeFitFromSumAfterFitFromVertex ==
  /\ (lastStage.stage \in {"mass", "d0d0"} /\ lastStage.ran) =>
       lastStage.bin = findBin(StageEdges, Pt(StageMom) + pTTolerance)
  /\ (lastStage.stage \in {"cosp", "decL"} /\ lastStage.ran) =>
       lastStage.bin = findBin(StageEdges, process(lastStage.tuple).pt)

\* C20 as stated: the row used by a stage after the fit is the row of the
\* bin that was used before the fit for the same candidate and decay.
C20_OneBinForAllStages ==
  (lastStage.stage \in {"mass", "d0d0", "cosp", "decL"} /\ lastStage.ran) =>
    lastStage.bin = findBin(StageEdges, Pt(StageMom) + pTTolerance)

\* a pointing-angle cut of a 2-prong decay has been made with the row of a
\* bin other than the one its mass cut used
C20_PointingAngleInAnotherBin ==
  /\ lastStage.cand = 2
  /\ lastStage.stage = "cosp"
  /\ lastStage.ran
  /\ << 2, lastStage.decay, "mass" >> \in stagesRun
  /\ PreBin2(StageMom, lastStage.decay) # -1
  /\ lastStage.bin # PreBin2(StageMom, lastStage.decay)

\* every row of a candidate table belongs to a tuple for which the fitter
\* found a vertex, and a cut-status table has no more rows than its
\* candidate table
RowsOfFittedTuples ==
  /\ \A k \in 1..Len(rowTrackIndexProng2) :
       process(<< rowTrackIndexProng2[k][1], rowTrackIndexProng2[k][2] >>) # NoFit
  /\ \A k \in 1..Len(rowTrackIndexProng3) :
       process(<< rowTrackIndexProng3[k][1], rowTrackIndexProng3[k][2],
                  rowTrackIndexProng3[k][3] >>) # NoFit
  /\ \A k \in 1..Len(rowTrackIndexCasc) :
       cascProcess(rowTrackIndexCasc[k][2], rowTrackIndexCasc[k][1]).nCand # 0
  /\ Len(rowProng2CutStatus) <= Len(rowTrackIndexProng2)
  /\ Len(rowProng3CutStatus) <= Len(rowTrackIndexProng3)

\* the step taken when the fitter is called for a tuple and finds no vertex
\* writes no row and goes on to what follows the tuple
FailedFitGoesOn ==
  /\ (pc = "fit2" /\ isSelected2ProngCand > 0 /\ process(Pair) = NoFit) =>
       /\ pc' = "sec3"
       /\ << iPos1, iNeg1 >>' = << iPos1, iNeg1 >>
       /\ outUnchanged
  /\ (pc = "fit3" /\ (debug \/ isSelected3ProngCand # 0) /\ process(Triple) = NoFit) =>
       /\ pc' \in {"pos2", "neg2"}
       /\ iThird' = iThird + 1
       /\ outUnchanged
  /\ (cpc = "cascfit" /\ cascProcess(iV0, iBach).nCand = 0) =>
       /\ cpc' = "v0"
       /\ iV0' = iV0 + 1
       /\ rowTrackIndexCasc' = rowTrackIndexCasc

\* C12: when the vertex fitter finds no vertex for a pair, a triple or a V0
\* and bachelor, no row is written for the tuple to any candidate or
\* cut-status table and the loops go on with the next tuple.
C12_FailedFitWritesNoRow == []RowsOfFittedTuples /\ [][FailedFitGoesOn]_vars

\* the fit of a V0 and a bachelor failed, and the next V0 of the same
\* bachelor was fitted and written
C12_CascadeAfterFailedFit ==
  /\ Len(passedCasc) >= 2
  /\ LET failed == passedCasc[Len(passedCasc) - 1]
         next == passedCasc[Len(passedCasc)]
     IN /\ cascProcess(failed[2], failed[1]).nCand = 0
        /\ next[1] = failed[1]
        /\ rowTrackIndexCasc = << << next[1], next[2], 1 >> >>

\* C14: a cut table that lacks a cut name, or bin edges out of order, are
\* fatal at init(), so that no candidate is evaluated with them, and no
\* evaluation looks up a name its table lacks.
C14_InvalidConfigurationFatalAtInit ==
  /\ ~ConfigValid => \A w \in Workers : wpc[w] \in {"idle", "off"}
  /\ unregistered = {}

\* an evaluation writes the static vectors while another one is inside its
\* call
Conflict ==
  \E w1 \in Workers, w2 \in Workers :
    /\ w1 # w2
    /\ wpc[w1] \in {"resize", "cache"}
    /\ wpc[w2] \in {"resize", "cache", "eval"}

\* C15: evaluations that overlap share nothing they write, and each answers
\* what it answers when run alone.
C15_EvaluationsShareNothing ==
  ConfigValid =>
    /\ ~Conflict
    /\ \A w \in Workers :
         wpc[w] = "done" =>
           \A i \in Decays2 :
             TESTBIT(wSel[w], i) <=> PreAccepted2(wCand[w].mom, wCand[w].dca, i)

\* C26: in debug mode the bit of decay i in the bitmask of a written
\* candidate is set if and only if every entry of decay i in the cut-status
\* row written with it is true.
C26_BitSetIffCutStatusAllTrue ==
  debug =>
    /\ Len(rowProng2CutStatus) = Len(rowTrackIndexProng2)
    /\ Len(rowProng3CutStatus) = Len(rowTrackIndexProng3)
    /\ \A k \in 1..Len(rowProng2CutStatus) : \A i \in Decays2 :
         TESTBIT(rowTrackIndexProng2[k][3], i)
           <=> rowProng2CutStatus[k][i] = nCutStatus2ProngBit
    /\ \A k \in 1..Len(rowProng3CutStatus) : \A i \in Decays3 :
         TESTBIT(rowTrackIndexProng3[k][4], i)
           <=> rowProng3CutStatus[k][i] = nCutStatus3ProngBit

\* a 2-prong cut-status row has been written for a pair that kept the bit of
\* one decay and lost the bit of another
C26_RowWithSetAndClearedBit ==
  /\ debug
  /\ \E k \in 1..Len(rowProng2CutStatus) : \E i \in Decays2, j \in Decays2 :
       /\ TESTBIT(rowTrackIndexProng2[k][3], i)
       /\ ~TESTBIT(rowTrackIndexProng2[k][3], j)
       /\ rowProng2CutStatus[k][j] # nCutStatus2ProngBit

\* C27: the final selection bitmask of a fitted pair or triple is one function
\* of the candidate and the cut tables, whatever the debug flag says: bit j is
\* set exactly when the candidate passes the cuts before the fit and the cuts
\* after the fit of decay j, so a run with debug enabled and a run with debug
\* disabled compute the same bitmask for the same candidate.
C27_BitmaskSameWithAndWithoutDebug ==
  /\ pc = "fill2" =>
       \A j \in Decays2 :
         TESTBIT(isSelected2ProngCand, j)
           <=> (/\ PreAccepted2(arrMom2, << tracks[iPos1].dcaXY, tracks[iNeg1].dcaXY >>, j)
                /\ PostAccepted2(fit, j))
  /\ pc = "fill3" =>
       \A j \in Decays3 :
         TESTBIT(isSelected3ProngCand, j)
           <=> (PreAccepted3(arrMom3(Triple), j) /\ PostAccepted3(fit, j))

\* a debug run in which the pointing-angle cut was evaluated for a decay the
\* pair had already failed before the fit, while another decay is selected
C27_DebugCutOnClearedBit ==
  /\ debug
  /\ pc = "fill2"
  /\ \E i \in Decays2, j \in Decays2 :
       /\ TESTBIT(isSelected2ProngCand, i)
       /\ ~PreAccepted2(arrMom2, << tracks[iPos1].dcaXY, tracks[iNeg1].dcaXY >>, j)
       /\ PostBin2(fit, j) # -1
       /\ << 2, j, "cosp" >> \in stagesRun

\* C28: when the mass histograms of a fitted pair or triple are filled, every
\* whichHypo entry that is read (the entries of the decays whose bit is set)
\* was assigned by the preselection of this very pair or triple, which found
\* a pT bin for the decay, and holds 1, 2 or 3, the value the mass window of
\* that bin gives for this candidate; no indeterminate and no stale entry is
\* read.
C28_HypoReadWasAssignedForThisCandidate ==
  /\ pc = "fill2" =>
       \A i \in Decays2 :
         TESTBIT(isSelected2ProngCand, i) =>
           /\ whichHypo2Prong[i] \in 1..3
           /\ << 2, i, "pT" >> \in stagesRun
           /\ << 2, i, "noBin" >> \notin stagesRun
           /\ whichHypo2Prong[i] =
                ExpectedHypo(cut2Prong[i], PreBin2(arrMom2, i), arrMom2, arrMass2Prong(i))
  /\ pc = "fill3" =>
       \A j \in Decays3 :
         TESTBIT(isSelected3ProngCand, j) =>
           /\ whichHypo3Prong[j] \in 1..3
           /\ << 3, j, "pT" >> \in stagesRun
           /\ << 3, j, "noBin" >> \notin stagesRun
           /\ whichHypo3Prong[j] =
                ExpectedHypo(cut3Prong[j], PreBin3(arrMom3(Triple), j),
                             arrMom3(Triple), arrMass3Prong(j))

\* histograms are filled for a pair with one decay selected on a single mass
\* ordering while the entry of another decay, which has no pT bin, is not a
\* value the preselection assigns
C28_ReadBesideUnassignedEntry ==
  /\ pc = "fill2"
  /\ \E i \in Decays2, j \in Decays2 :
       /\ TESTBIT(isSelected2ProngCand, i)
       /\ whichHypo2Prong[i] \in 1..2
       /\ << 2, j, "noBin" >> \in stagesRun
       /\ whichHypo2Prong[j] \notin 1..3

(***************************************************************************)
(* HfTagSelTracks::process(): the single-track selection, one action per   *)
(* cut of the loop body.  pT, eta and DCA are in units of 0.1.             *)
(***************************************************************************)
CandidateTypes == 0..(NCandidateTypes - 1)

colmapTrack == [min_dcaxytoprimary |-> 1, max_dcaxytoprimary |-> 2]

\* the Configurables of a run; index 0: 2-prong, 1: 3-prong, 2: bachelor
TrackCutConfigs ==
  { [ pTMinTrack2Prong |-> -10, pTMinTrack3Prong |-> -10, ptMinTrackBach |-> 3,
      etaMax2Prong |-> 40, etaMax3Prong |-> 40, etaMaxBach |-> 8,
      tpcNClsFound |-> 70,
      pTBinsTrack |-> << 0, 5, 10 >>,
      cutsSingleTrack |->
        [ c \in CandidateTypes |->
            LabeledArray(colmapTrack, << << 0, 10 >>, << 0, 10 >> >>) ] ],
    [ pTMinTrack2Prong |-> 5, pTMinTrack3Prong |-> 3, ptMinTrackBach |-> 3,
      etaMax2Prong |-> 8, etaMax3Prong |-> 40, etaMaxBach |-> 8,
      tpcNClsFound |-> 70,
      pTBinsTrack |-> << 0, 5, 10 >>,
      cutsSingleTrack |->
        [ c \in CandidateTypes |->
            IF c = Cand2Prong
            THEN LabeledArray(colmapTrack, << << 1, 3 >>, << 0, 3 >> >>)
            ELSE LabeledArray(colmapTrack, << << 0, 10 >>, << 0, 10 >> >>) ] ] }

InputTrack(pt, eta, ncls, refit, clustermap, dcaXY) ==
  [ pt |-> pt, eta |-> eta, tpcNClsFound |-> ncls, ITSrefit |-> refit,
    itsClusterMap |-> clustermap, dcaXY |-> dcaXY ]

InputTrackKinds ==
  { InputTrack(6, 0, 80, TRUE, 1, 1),
    InputTrack(2, 0, 80, TRUE, 2, -1),
    InputTrack(6, -9, 80, TRUE, 3, 1),
    InputTrack(6, 0, 60, TRUE, 1, 1),
    InputTrack(6, 0, 80, FALSE, 1, 1),
    InputTrack(6, 0, 70, TRUE, 4, 1),
    InputTrack(6, 0, 70, TRUE, 1, -5),
    InputTrack(12, 0, 80, TRUE, 1, 1),
    InputTrack(2, 9, 60, TRUE, 1, 0),
    InputTrack(2, 0, 80, TRUE, 1, 0) }

InitSelTracks ==
  /\ SkimIdle
  /\ FemtoIdle
  /\ XIdle
  /\ BCIdle
  /\ SpectraIdle
  /\ BinIdle
  /\ CascIdle
  /\ CacheIdle
  /\ debugTracks \in BOOLEAN
  /\ doCutQuality \in BOOLEAN
  /\ cutsTracks \in TrackCutConfigs
  /\ inputTracks \in TablesUpTo(InputTrackKinds, MaxSelTracks)
  /\ tpc = "track"
  /\ iTrack = 1
  /\ statusProng = 0
  /\ rowSelectedTrack = << >>

\* faulty variant of AllBitsOn: one bit more than there are candidate types
AllBitsOnOneTooMany == BIT(NCandidateTypes + 1) - 1

\* "int statusProng = BIT(CandidateType::NCandidateTypes) - 1"
AllBitsOn == BIT(NCandidateTypes) - 1

pTMinTrack(c) ==
  IF c = Cand2Prong THEN cutsTracks.pTMinTrack2Prong
  ELSE IF c = Cand3Prong THEN cutsTracks.pTMinTrack3Prong
  ELSE cutsTracks.ptMinTrackBach

etaMaxTrack(c) ==
  IF c = Cand2Prong THEN cutsTracks.etaMax2Prong
  ELSE IF c = Cand3Prong THEN cutsTracks.etaMax3Prong
  ELSE cutsTracks.etaMaxBach

\* faulty variant of TrackCutOn: the cuts are evaluated in debug mode only
TrackCutOnDebugOnly(status, c) == debugTracks

\* "debug || TESTBIT(statusProng, candType)"
TrackCutOn(status, c) == debugTracks \/ TESTBIT(status, c)

\* isSelectedTrack: the DCA cuts of the track's pT bin
isSelectedTrack(hfTrack, candType) ==
  LET pTBinTrack == findBin(cutsTracks.pTBinsTrack, hfTrack.pt)
      cuts == cutsTracks.cutsSingleTrack[candType]
  IN IF pTBinTrack = -1 THEN FALSE
     ELSE IF Abs(hfTrack.dcaXY) < get(cuts, pTBinTrack, find(cuts, "min_dcaxytoprimary"))
     THEN FALSE
     ELSE IF Abs(hfTrack.dcaXY) > get(cuts, pTBinTrack, find(cuts, "max_dcaxytoprimary"))
     THEN FALSE
     ELSE TRUE

\* the quality requirement on the clusters of the track
QualityOK(track) ==
  /\ track.tpcNClsFound >= cutsTracks.tpcNClsFound
  /\ track.ITSrefit
  /\ (TESTBIT(track.itsClusterMap, 0) \/ TESTBIT(track.itsClusterMap, 1))

\* the three pT cuts, one after the other
CutPt(status, track) ==
  LET cut(s, c) == IF track.pt < pTMinTrack(c) THEN CLRBIT(s, c) ELSE s
  IN cut(cut(cut(status, Cand2Prong), Cand3Prong), CandV0bachelor)

\* the three eta cuts, one after the other
CutEta(status, track) ==
  LET cut(s, c) ==
        IF TrackCutOn(s, c) /\ Abs(track.eta) > etaMaxTrack(c) THEN CLRBIT(s, c) ELSE s
  IN cut(cut(cut(status, Cand2Prong), Cand3Prong), CandV0bachelor)

\* the quality cut rejects the track for every candidate type
CutQuality(status, track) ==
  IF doCutQuality /\ (debugTracks \/ status > 0) /\ ~QualityOK(track) THEN 0 ELSE status

\* the three DCA cuts, one after the other
CutDca(status, track) ==
  LET cut(s, c) ==
        IF TrackCutOn(s, c) /\ ~isSelectedTrack(track, c) THEN CLRBIT(s, c) ELSE s
  IN IF debugTracks \/ status > 0
     THEN cut(cut(cut(status, Cand2Prong), Cand3Prong), CandV0bachelor)
     ELSE status

selFrame ==
  UNCHANGED << notSelVars, debugTracks, doCutQuality, cutsTracks, inputTracks >>

\* head of the loop over the tracks
SelNextTrack ==
  /\ tpc = "track"
  /\ IF iTrack > Len(inputTracks)
     THEN /\ tpc' = "done"
          /\ UNCHANGED statusProng
     ELSE /\ tpc' = "pT"
          /\ statusProng' = AllBitsOn
  /\ UNCHANGED << iTrack, rowSelectedTrack >>
  /\ selFrame

SelPtCut ==
  /\ tpc = "pT"
  /\ statusProng' = CutPt(statusProng, inputTracks[iTrack])
  /\ tpc' = "eta"
  /\ UNCHANGED << iTrack, rowSelectedTrack >>
  /\ selFrame

SelEtaCut ==
  /\ tpc = "eta"
  /\ statusProng' = CutEta(statusProng, inputTracks[iTrack])
  /\ tpc' = "quality"
  /\ UNCHANGED << iTrack, rowSelectedTrack >>
  /\ selFrame

SelQualityCut ==
  /\ tpc = "quality"
  /\ statusProng' = CutQuality(statusProng, inputTracks[iTrack])
  /\ tpc' = "dca"
  /\ UNCHANGED << iTrack, rowSelectedTrack >>
  /\ selFrame

SelDcaCut ==
  /\ tpc = "dca"
  /\ statusProng' = CutDca(statusProng, inputTracks[iTrack])
  /\ tpc' = "row"
  /\ UNCHANGED << iTrack, rowSelectedTrack >>
  /\ selFrame

\* "rowSelectedTrack(statusProng, track.px(), track.py(), track.pz())"
SelFillRow ==
  /\ tpc = "row"
  /\ rowSelectedTrack' = Append(rowSelectedTrack, statusProng)
  /\ iTrack' = iTrack + 1
  /\ tpc' = "track"
  /\ UNCHANGED statusProng
  /\ selFrame

NextSelTracks ==
  \/ SelNextTrack
  \/ SelPtCut
  \/ SelEtaCut
  \/ SelQualityCut
  \/ SelDcaCut
  \/ SelFillRow

SpecSelTracks == InitSelTracks /\ [][NextSelTracks]_vars

\* the track passes every cut of candidate type c
PassesTrackCuts(track, c) ==
  /\ track.pt >= pTMinTrack(c)
  /\ Abs(track.eta) <= etaMaxTrack(c)
  /\ doCutQuality => QualityOK(track)
  /\ isSelectedTrack(track, c)

\* the status with the bit of every candidate type the track passes
ExpectedStatus(track) ==
  SumSeq([ k \in 1..NCandidateTypes |->
             IF PassesTrackCuts(track, k - 1) THEN BIT(k - 1) ELSE 0 ])

\* C29: the single-track selection writes one row per track handed to it, in
\* the order of the tracks, and the status of a row is one function of the
\* track and the cuts whatever the debug flag says (the bit of a candidate
\* type is set exactly when the track passes the pT, eta, quality and DCA
\* cuts of that type), so it is the same with debug enabled and disabled; a
\* track that fails the enabled quality cut has status 0 in both modes.
C29_OneRowPerTrackSameStatusInDebug ==
  tpc # "idle" =>
    /\ Len(rowSelectedTrack) = iTrack - 1
    /\ tpc = "done" => Len(rowSelectedTrack) = Len(inputTracks)
    /\ \A k \in 1..Len(rowSelectedTrack) :
         /\ rowSelectedTrack[k] = ExpectedStatus(inputTracks[k])
         /\ (doCutQuality /\ ~QualityOK(inputTracks[k])) => rowSelectedTrack[k] = 0

\* a finished debug run with the quality cut enabled: one track fails the
\* quality cut after the pT cuts had cleared all its bits, another is selected
C29_DebugQualityCutOnRejectedTrack ==
  /\ debugTracks
  /\ doCutQuality
  /\ tpc = "done"
  /\ \E k \in 1..Len(rowSelectedTrack), l \in 1..Len(rowSelectedTrack) :
       /\ ~QualityOK(inputTracks[k])
       /\ CutPt(AllBitsOn, inputTracks[k]) = 0
       /\ rowSelectedTrack[k] = 0
       /\ rowSelectedTrack[l] > 0

\* the track of the selected-track table as the cascade creator reads it, with
\* the properties its other bachelor selections ask for
AsBachelor(status) ==
  [ isSelProng |-> status, tpcRefit |-> TRUE,
    tpcNClsCrossedRows |-> cascCuts.minCrossedRowsBach ]

\* C30: every status written by the single-track selection lies in
\* 0 .. 2^NCandidateTypes - 1, and therefore the bachelor test of the cascade
\* creator ("isSelProng < 4": skip) rejects the track exactly when its
\* V0-bachelor bit is cleared, whatever its 2-prong and 3-prong bits are.
C30_StatusInRangeBachelorTestIsBit ==
  \A k \in 1..Len(rowSelectedTrack) :
    /\ rowSelectedTrack[k] \in 0..(BIT(NCandidateTypes) - 1)
    /\ BachelorRejected(AsBachelor(rowSelectedTrack[k]))
         <=> ~TESTBIT(rowSelectedTrack[k], CandV0bachelor)

\* one track is written with the bachelor bit cleared and another bit set,
\* another with the bachelor bit set and another bit cleared
C30_BachelorBitApartFromOthers ==
  \E k \in 1..Len(rowSelectedTrack), l \in 1..Len(rowSelectedTrack) :
    /\ rowSelectedTrack[k] \in 1..(BIT(CandV0bachelor) - 1)
    /\ TESTBIT(rowSelectedTrack[l], CandV0bachelor)
    /\ rowSelectedTrack[l] < AllBitsOn

(***************************************************************************)
(* HFCandidateCreatorX::process(): the loop over the J/psi candidates and, *)
(* for each, the loops over the pi+ and the pi- candidates.  globalIndex   *)
(* of a track is its position in bigTracks.  pT and rapidity are in units  *)
(* of 0.1.                                                                 *)
(***************************************************************************)
JpsiToEE == 1
JpsiToMuMu == 2

BigTrack(s, pt) == [ signed1Pt |-> s, pt |-> pt ]

BigTrackKinds == { BigTrack(1, 3), BigTrack(-1, 3), BigTrack(0, 3), BigTrack(1, 1) }

\* a row of HfCandProng2 as HfTrackIndexSkimsCreator builds it: index0 is a
\* track that passed 'signed1Pt() < 0: continue', index1 one that passed
\* 'signed1Pt() > 0: continue'
JpsiCandsOf(trks) ==
  { [ index0 |-> i, index1 |-> j, hfflag |-> f.hfflag, y |-> f.y ] :
      i \in { k \in 1..Len(trks) : trks[k].signed1Pt >= 0 },
      j \in { k \in 1..Len(trks) : trks[k].signed1Pt <= 0 },
      f \in { [hfflag |-> BIT(JpsiToEE), y |-> 0],
              [hfflag |-> BIT(JpsiToMuMu), y |-> -9],
              [hfflag |-> BIT(0), y |-> 0] } }

\* df2.process and df3.process find a vertex or none
FitterXModels == [ df2 : BOOLEAN, odd : BOOLEAN, even : BOOLEAN ]

InitCreatorX ==
  /\ SkimIdle
  /\ BinIdle
  /\ CascIdle
  /\ CacheIdle
  /\ SelIdle
  /\ BCIdle
  /\ SpectraIdle
  /\ FemtoIdle
  /\ ptPionMin = 2
  /\ cutYCandMax \in {-10, 8}
  /\ signOfZero \in {-1, 0, 1}
  /\ bigTracks \in TablesUpTo(BigTrackKinds, MaxXTracks)
  /\ jpsiCands \in TablesUpTo(JpsiCandsOf(bigTracks), MaxJpsi)
  /\ fitterX \in FitterXModels
  /\ xpc = "jpsi"
  /\ iJpsi = 1
  /\ iTrackPos = 0
  /\ iTrackNeg = 0
  /\ rowCandidateBase = << >>

\* track.sign()
sign(track) ==
  IF track.signed1Pt > 0 THEN 1
  ELSE IF track.signed1Pt < 0 THEN -1
  ELSE signOfZero

\* "!(hfflag & 1 << JpsiToEE) && !(hfflag & 1 << JpsiToMuMu)", the rapidity
\* cut, and the refit of the J/psi vertex
JpsiSkipped(jpsiCand) ==
  \/ ~TESTBIT(jpsiCand.hfflag, JpsiToEE) /\ ~TESTBIT(jpsiCand.hfflag, JpsiToMuMu)
  \/ cutYCandMax >= 0 /\ Abs(jpsiCand.y) > cutYCandMax
  \/ ~fitterX.df2

\* the selections on the pi+ candidate
TrackPosSkipped(trackPos, index0Jpsi) ==
  \/ sign(bigTracks[trackPos]) < 0
  \/ trackPos = index0Jpsi
  \/ bigTracks[trackPos].pt < ptPionMin

\* the selections on the pi- candidate
TrackNegSkipped(trackNeg, index1Jpsi) ==
  \/ sign(bigTracks[trackNeg]) > 0
  \/ trackNeg = index1Jpsi
  \/ bigTracks[trackNeg].pt < ptPionMin

\* df3.process(trackJpsi, trackParVarPos, trackParVarNeg)
processX(pos, neg) == IF (pos + neg) % 2 = 1 THEN fitterX.odd ELSE fitterX.even

xFrame ==
  UNCHANGED << notXVars, ptPionMin, cutYCandMax, signOfZero, bigTracks, jpsiCands,
               fitterX >>

\* head of the loop over the J/psi candidates
JpsiLoop ==
  /\ xpc = "jpsi"
  /\ IF iJpsi > Len(jpsiCands)
     THEN /\ xpc' = "done"
          /\ UNCHANGED << iJpsi, iTrackPos >>
     ELSE IF JpsiSkipped(jpsiCands[iJpsi])
     THEN /\ xpc' = "jpsi"
          /\ iJpsi' = iJpsi + 1
          /\ UNCHANGED iTrackPos
     ELSE /\ xpc' = "pos"
          /\ iTrackPos' = 1
          /\ UNCHANGED iJpsi
  /\ UNCHANGED << iTrackNeg, rowCandidateBase >>
  /\ xFrame

\* head of the loop over the pi+ candidates
TrackPosLoop ==
  /\ xpc = "pos"
  /\ IF iTrackPos > Len(bigTracks)
     THEN /\ xpc' = "jpsi"
          /\ iJpsi' = iJpsi + 1
          /\ UNCHANGED << iTrackPos, iTrackNeg >>
     ELSE IF TrackPosSkipped(iTrackPos, jpsiCands[iJpsi].index0)
     THEN /\ xpc' = "pos"
          /\ iTrackPos' = iTrackPos + 1
          /\ UNCHANGED << iJpsi, iTrackNeg >>
     ELSE /\ xpc' = "neg"
          /\ iTrackNeg' = 1
          /\ UNCHANGED << iJpsi, iTrackPos >>
  /\ UNCHANGED rowCandidateBase
  /\ xFrame

\* one turn of the loop over the pi- candidates: the selections, the fit of the
\* X vertex and the row (of its columns, the three index columns are kept)
TrackNegLoop ==
  /\ xpc = "neg"
  /\ IF iTrackNeg > Len(bigTracks)
     THEN /\ xpc' = "pos"
          /\ iTrackPos' = iTrackPos + 1
          /\ UNCHANGED << iTrackNeg, rowCandidateBase >>
     ELSE /\ xpc' = "neg"
          /\ iTrackNeg' = iTrackNeg + 1
          /\ UNCHANGED iTrackPos
          /\ IF \/ TrackNegSkipped(iTrackNeg, jpsiCands[iJpsi].index1)
                \/ ~processX(iTrackPos, iTrackNeg)
             THEN UNCHANGED rowCandidateBase
             ELSE rowCandidateBase' =
                    Append(rowCandidateBase,
                           [ index0 |-> iJpsi, index1 |-> iTrackPos, index2 |-> iTrackNeg ])
  /\ UNCHANGED iJpsi
  /\ xFrame

NextCreatorX ==
  \/ JpsiLoop
  \/ TrackPosLoop
  \/ TrackNegLoop

SpecCreatorX == InitCreatorX /\ [][NextCreatorX]_vars

\* C24: in every row of the X candidate table neither pion is one of the two
\* prongs of the J/psi candidate of that row.
C24_PionsAreNotJpsiProngs ==
  \A k \in 1..Len(rowCandidateBase) :
    LET row == rowCandidateBase[k]
        jpsi == jpsiCands[row.index0]
    IN /\ row.index1 # jpsi.index0
       /\ row.index1 # jpsi.index1
       /\ row.index2 # jpsi.index0
       /\ row.index2 # jpsi.index1

(***************************************************************************)
(* getCompatibleBCs (PWGUD/Tasks/diffMCDataScanner.cxx): the window of     *)
(* bunch crossings around the collision and the two walks over the BC      *)
(* table that find the slice.  uint64_t and int64_t are words of WordBits  *)
(* bits.                                                                   *)
(***************************************************************************)
Word == 2 ^ WordBits

\* conversion to uint64_t
ToUnsigned(x) == x % Word

\* conversion to int64_t
ToSigned(x) == IF x % Word >= Word \div 2 THEN (x % Word) - Word ELSE x % Word

\* the BC tables: at least one row, globalBC strictly increasing with the row
RECURSIVE SortedTables(_, _)
SortedTables(n, lowest) ==
  IF n = 0 THEN { << >> }
  ELSE { << >> } \cup
       UNION { { << b >> \o t : t \in SortedTables(n - 1, b + 1) } :
               b \in lowest..MaxGlobalBC }

BCTables == SortedTables(MaxBCs, 0) \ { << >> }

InitCompatibleBCs ==
  /\ SkimIdle
  /\ BinIdle
  /\ CascIdle
  /\ CacheIdle
  /\ SelIdle
  /\ XIdle
  /\ SpectraIdle
  /\ FemtoIdle
  /\ bcs \in BCTables
  /\ bcId \in 0..(Len(bcs) - 1)
  /\ collisionTimeBC \in (-MaxDeltaBC)..MaxDeltaBC
  /\ deltaBC \in 0..MaxDeltaBC
  /\ bpc = "window"
  /\ minBC = 0
  /\ maxBC = 0
  /\ bcIter = bcId
  /\ moveCount = 0
  /\ minBCId = 0
  /\ maxBCId = 0
  /\ slice = << >>

\* bcIter.globalBC()
globalBC(iter) == bcs[iter + 1]

\* "uint64_t meanBC = mostProbableBC - std::lround(collisionTime / spacing)"
meanBC == ToUnsigned(globalBC(bcId) - collisionTimeBC)

\* "bcIter.globalBC() <= maxBC && (int64_t)bcIter.globalBC() >= minBC"
InWindow(iter) ==
  /\ ToUnsigned(globalBC(iter)) <= maxBC
  /\ ToSigned(globalBC(iter)) >= minBC

bcFrame == UNCHANGED << notBCVars, bcs, bcId, collisionTimeBC, deltaBC >>

\* the window [minBC, maxBC], minBC clamped at 0; the walks start at the
\* collision's own BC
Window ==
  /\ bpc = "window"
  /\ minBC' = (IF ToSigned(meanBC - deltaBC) < 0 THEN 0 ELSE ToSigned(meanBC - deltaBC))
  /\ maxBC' = ToUnsigned(meanBC + deltaBC)
  /\ maxBCId' = bcId
  /\ moveCount' = 0
  /\ bcIter' = bcId
  /\ bpc' = "forward"
  /\ UNCHANGED << minBCId, slice >>
  /\ bcFrame

\* one turn of the first while loop, or its end: bcIter is moved back to the
\* collision's own BC and minBCId starts there
Forward ==
  /\ bpc = "forward"
  /\ IF bcIter # Len(bcs) /\ InWindow(bcIter)
     THEN /\ maxBCId' = bcIter
          /\ bcIter' = bcIter + 1
          /\ moveCount' = moveCount + 1
          /\ UNCHANGED << bpc, minBCId >>
     ELSE /\ bcIter' = bcIter - moveCount
          /\ minBCId' = bcId
          /\ bpc' = "backward"
          /\ UNCHANGED << maxBCId, moveCount >>
  /\ UNCHANGED << minBC, maxBC, slice >>
  /\ bcFrame

\* one turn of the second while loop, or its end and the slice
Backward ==
  /\ bpc = "backward"
  /\ IF bcIter # 0 /\ InWindow(bcIter)
     THEN /\ minBCId' = bcIter
          /\ bcIter' = bcIter - 1
          /\ UNCHANGED << bpc, slice >>
     ELSE /\ slice' = << minBCId, maxBCId - minBCId + 1 >>
          /\ bpc' = "done"
          /\ UNCHANGED << minBCId, bcIter >>
  /\ UNCHANGED << minBC, maxBC, maxBCId, moveCount >>
  /\ bcFrame

NextCompatibleBCs ==
  \/ Window
  \/ Forward
  \/ Backward

SpecCompatibleBCs == InitCompatibleBCs /\ [][NextCompatibleBCs]_vars

\* the rows (by globalIndex) of the returned slice
SliceRows == { i \in 0..(Len(bcs) - 1) : slice[1] <= i /\ i < slice[1] + slice[2] }

\* the rows whose globalBC lies in [minBC, maxBC]
WindowRows == { i \in 0..(Len(bcs) - 1) : minBC <= globalBC(i) /\ globalBC(i) <= maxBC }

\* C21: the slice getCompatibleBCs returns holds exactly the rows of the BC
\* table whose globalBC lies in [minBC, maxBC].
C21_SliceIsExactlyTheWindow ==
  bpc = "done" => SliceRows = WindowRows

(***************************************************************************)
(* chargedSpectra::processMC (PWGLF/Tasks/spectraCharged.cxx) with         *)
(* initEventMC, processTrue and initEvent.  posZ is in cm, eta and pT in   *)
(* units of 0.1.  Of the histograms, multPtSpec_prim_gen_evtloss is kept.  *)
(***************************************************************************)
spectraCuts == [ etaCut |-> 8, ptMinCut |-> 2, ptMaxCut |-> 100 ]

McParticle(charge, primary, eta, pt) ==
  [ charge |-> charge, isPhysicalPrimary |-> primary, eta |-> eta, pt |-> pt ]

McParticleTables ==
  { << >>,
    << McParticle(1, TRUE, 0, 5) >>,
    << McParticle(0, TRUE, 0, 5), McParticle(-1, TRUE, 3, 7) >>,
    << McParticle(1, FALSE, 0, 5), McParticle(1, TRUE, 9, 5) >> }

RecoCollision(posZ, sel8, kINT7, sel7, nGood) ==
  [ posZ |-> posZ, sel8 |-> sel8, kINT7 |-> kINT7, sel7 |-> sel7, goodTracks |-> nGood ]

RecoCollisionKinds ==
  { RecoCollision(5, TRUE, TRUE, TRUE, 1),
    RecoCollision(5, FALSE, FALSE, TRUE, 1),
    RecoCollision(5, TRUE, TRUE, FALSE, 0),
    RecoCollision(10, TRUE, TRUE, TRUE, 1),
    RecoCollision(12, FALSE, TRUE, TRUE, 1) }

\* the reconstructed collisions of one MC collision: none, one, or two
RecoCollisionTables ==
  { << >> } \cup { << c >> : c \in RecoCollisionKinds }
            \cup { << RecoCollision(5, TRUE, TRUE, TRUE, 1),
                      RecoCollision(5, FALSE, FALSE, TRUE, 1) >> }

McCollisionKinds ==
  [ posZ : {5, 12}, particles : McParticleTables, collisions : RecoCollisionTables ]

InitSpectra ==
  /\ SkimIdle
  /\ BinIdle
  /\ CascIdle
  /\ CacheIdle
  /\ SelIdle
  /\ XIdle
  /\ BCIdle
  /\ FemtoIdle
  /\ isRun3 \in BOOLEAN
  /\ mcCollisions \in TablesUpTo(McCollisionKinds, MaxMcCollisions)
  /\ iMcCollision = 1
  /\ mpc = "call"
  /\ multMeas = 0
  /\ multTrue = 0
  /\ isAcceptedEvent = FALSE
  /\ isAcceptedEventMC = FALSE
  /\ lastEvent = << >>
  /\ evtloss = << >>

\* initParticle: its return value
initParticle(particle) ==
  /\ particle.charge # 0
  /\ Abs(particle.eta) < spectraCuts.etaCut
  /\ particle.pt > spectraCuts.ptMinCut
  /\ particle.pt < spectraCuts.ptMaxCut

\* initParticle: vars.isChargedPrimary as it leaves it
isChargedPrimary(particle) ==
  IF particle.charge = 0 THEN FALSE ELSE particle.isPhysicalPrimary

\* the particles processTrue and initEventMC count: positions in the table
ChargedPrimaries(particles) ==
  { k \in 1..Len(particles) :
      initParticle(particles[k]) /\ isChargedPrimary(particles[k]) }

\* "(posZ < 10.f) && isRun3 ? sel8 : (alias[kINT7] && sel7)": the conditional
\* operator binds less tightly than &&
AcceptedEvent(collision) ==
  IF collision.posZ < 10 /\ isRun3
  THEN collision.sel8
  ELSE (collision.kINT7 /\ collision.sel7)

\* the elements of a finite set of numbers in increasing order
RECURSIVE InOrder(_)
InOrder(S) ==
  IF S = {} THEN << >>
  ELSE LET m == CHOOSE x \in S : \A y \in S : x <= y
       IN << m >> \o InOrder(S \ {m})

spectraFrame == UNCHANGED << notSpectraVars, isRun3, mcCollisions >>

\* entry of processMC: ambiguously reconstructed MC collisions are skipped,
\* for the others initEventMC is run
ProcessMC ==
  /\ mpc = "call"
  /\ IF iMcCollision > Len(mcCollisions)
     THEN /\ mpc' = "done"
          /\ UNCHANGED << iMcCollision, multTrue, isAcceptedEventMC >>
     ELSE LET mc == mcCollisions[iMcCollision] IN
          IF Len(mc.collisions) > 1
          THEN /\ iMcCollision' = iMcCollision + 1
               /\ UNCHANGED << mpc, multTrue, isAcceptedEventMC >>
          ELSE /\ multTrue' = Cardinality(ChargedPrimaries(mc.particles))
               /\ isAcceptedEventMC' =
                    (mc.posZ < 10 /\ Cardinality(ChargedPrimaries(mc.particles)) > 0)
               /\ mpc' = "true"
               /\ UNCHANGED iMcCollision
  /\ UNCHANGED << multMeas, isAcceptedEvent, lastEvent, evtloss >>
  /\ spectraFrame

\* processTrue: the loop over the particles
ProcessTrue ==
  /\ mpc = "true"
  /\ LET mc == mcCollisions[iMcCollision] IN
       evtloss' =
         IF isAcceptedEventMC /\ ~isAcceptedEvent
         THEN evtloss \o [ k \in 1..Cardinality(ChargedPrimaries(mc.particles)) |->
                             << iMcCollision, InOrder(ChargedPrimaries(mc.particles))[k] >> ]
         ELSE evtloss
  /\ mpc' = "event"
  /\ UNCHANGED << iMcCollision, multMeas, multTrue, isAcceptedEvent, isAcceptedEventMC,
                  lastEvent >>
  /\ spectraFrame

\* the loop over the reconstructed collisions, left after the first one:
\* initEvent and processMeas (which changes no member of vars that is read
\* later)
InitEvent ==
  /\ mpc = "event"
  /\ LET mc == mcCollisions[iMcCollision] IN
       IF mc.collisions = << >>
       THEN UNCHANGED << multMeas, isAcceptedEvent, lastEvent >>
       ELSE /\ multMeas' = mc.collisions[1].goodTracks
            /\ isAcceptedEvent' = AcceptedEvent(mc.collisions[1])
            /\ lastEvent' = << mc.collisions[1] >>
  /\ mpc' = "call"
  /\ iMcCollision' = iMcCollision + 1
  /\ UNCHANGED << multTrue, isAcceptedEventMC, evtloss >>
  /\ spectraFrame

NextSpectra ==
  \/ ProcessMC
  \/ ProcessTrue
  \/ InitEvent

SpecSpectra == InitSpectra /\ [][NextSpectra]_vars

\* the MC collision of call i is accepted at generator level
AcceptedAtGeneratorLevel(i) ==
  /\ mcCollisions[i].posZ < 10
  /\ ChargedPrimaries(mcCollisions[i].particles) # {}

\* the reconstructed event of the MC collision of call i passed initEvent
RecoEventPassed(i) ==
  /\ mcCollisions[i].collisions # << >>
  /\ AcceptedEvent(mcCollisions[i].collisions[1])

\* the particles of call i filled into multPtSpec_prim_gen_evtloss
FilledEvtloss(i) == { evtloss[k][2] : k \in { n \in 1..Len(evtloss) : evtloss[n][1] = i } }

\* C22: for every processMC call that has run processTrue,
\* multPtSpec_prim_gen_evtloss was filled for exactly the generated charged
\* primaries of its MC collision when that MC collision is accepted at generator
\* level and its own reconstructed event did not pass the event selection, and
\* for no particle otherwise.
C22_EvtlossFromOwnRecoEvent ==
  \A i \in 1..Len(mcCollisions) :
    (Len(mcCollisions[i].collisions) <= 1
       /\ (i < iMcCollision \/ (i = iMcCollision /\ mpc = "event"))) =>
      FilledEvtloss(i) =
        IF AcceptedAtGeneratorLevel(i) /\ ~RecoEventPassed(i)
        THEN ChargedPrimaries(mcCollisions[i].particles)
        ELSE {}

\* C25: the event initEvent was called with last is marked accepted only if
\* its vertex z is below 10 and the selection of the run mode passes.
C25_AcceptedOnlyBelowVertexCut ==
  (lastEvent # << >> /\ isAcceptedEvent) =>
    /\ lastEvent[1].posZ < 10
    /\ IF isRun3 THEN lastEvent[1].sel8 ELSE (lastEvent[1].kINT7 /\ lastEvent[1].sel7)

(***************************************************************************)
(* femtoDreamProducerTask::process: the basic event selection, the loop    *)
(* over the tracks and the loop over the V0s.  Of a row, the collision     *)
(* index and the particle type are kept, and the process call that wrote   *)
(* it.                                                                     *)
(***************************************************************************)
\* a V0: isSelectedMinimal, and whether the three cut containers are > 0
FemtoV0Kinds ==
  { [ minimal |-> FALSE, cuts |-> FALSE ],
    [ minimal |-> TRUE, cuts |-> FALSE ],
    [ minimal |-> TRUE, cuts |-> TRUE ] }

\* a collision: colCuts.isSelected, trackCuts.isSelectedMinimal of its tracks,
\* and its V0s
FemtoCollisionKinds ==
  [ isSelected : BOOLEAN,
    tracks : TablesUpTo(BOOLEAN, MaxFemtoTracks),
    fullV0s : TablesUpTo(FemtoV0Kinds, MaxFemtoV0s) ]

InitFemto ==
  /\ SkimIdle
  /\ BinIdle
  /\ CascIdle
  /\ CacheIdle
  /\ SelIdle
  /\ XIdle
  /\ BCIdle
  /\ SpectraIdle
  /\ ConfIsTrigger \in BOOLEAN
  /\ ConfDebugOutput \in BOOLEAN
  /\ femtoCollisions \in TablesUpTo(FemtoCollisionKinds, MaxFemtoCollisions)
  /\ iCol = 1
  /\ fpc = "process"
  /\ iFemtoTrack = 0
  /\ iFemtoV0 = 0
  /\ outputCollision = << >>
  /\ outputTracks = << >>
  /\ outputDebugTracks = << >>

\* faulty variant of lastIndex: the index of the row written next
lastIndexOfNextRow(table) == Len(table)

\* Produces<T>::lastIndex(): the index of the row written last
lastIndex(table) == Len(table) - 1

\* a row of outputTracks
ParticleRow(type) ==
  [ collisionId |-> lastIndex(outputCollision), type |-> type, call |-> iCol ]

femtoFrame == UNCHANGED << notFemtoVars, ConfIsTrigger, ConfDebugOutput, femtoCollisions >>

\* entry of process: the basic event selection and the collision row
FemtoProcess ==
  /\ fpc = "process"
  /\ IF iCol > Len(femtoCollisions)
     THEN /\ fpc' = "done"
          /\ UNCHANGED << iCol, iFemtoTrack, outputCollision >>
     ELSE IF ~femtoCollisions[iCol].isSelected
     THEN /\ outputCollision' =
               (IF ConfIsTrigger
                THEN Append(outputCollision, [ call |-> iCol ])
                ELSE outputCollision)
          /\ iCol' = iCol + 1
          /\ UNCHANGED << fpc, iFemtoTrack >>
     ELSE /\ outputCollision' = Append(outputCollision, [ call |-> iCol ])
          /\ fpc' = "tracks"
          /\ iFemtoTrack' = 1
          /\ UNCHANGED iCol
  /\ UNCHANGED << iFemtoV0, outputTracks, outputDebugTracks >>
  /\ femtoFrame

\* one turn of the loop over the tracks
FemtoTrackLoop ==
  /\ fpc = "tracks"
  /\ IF iFemtoTrack > Len(femtoCollisions[iCol].tracks)
     THEN /\ fpc' = "v0s"
          /\ iFemtoV0' = 1
          /\ UNCHANGED << iFemtoTrack, outputTracks, outputDebugTracks >>
     ELSE /\ iFemtoTrack' = iFemtoTrack + 1
          /\ UNCHANGED << fpc, iFemtoV0 >>
          /\ IF ~femtoCollisions[iCol].tracks[iFemtoTrack]
             THEN UNCHANGED << outputTracks, outputDebugTracks >>
             ELSE /\ outputTracks' = Append(outputTracks, ParticleRow("kTrack"))
                  /\ outputDebugTracks' =
                       (IF ConfDebugOutput
                        THEN Append(outputDebugTracks,
                                    [ collisionId |-> lastIndex(outputCollision),
                                      call |-> iCol ])
                        ELSE outputDebugTracks)
  /\ UNCHANGED << iCol, outputCollision >>
  /\ femtoFrame

\* one turn of the loop over the V0s: the rows of the two children and of the V0
FemtoV0Loop ==
  /\ fpc = "v0s"
  /\ IF iFemtoV0 > Len(femtoCollisions[iCol].fullV0s)
     THEN /\ fpc' = "process"
          /\ iCol' = iCol + 1
          /\ UNCHANGED << iFemtoV0, outputTracks >>
     ELSE /\ iFemtoV0' = iFemtoV0 + 1
          /\ UNCHANGED << fpc, iCol >>
          /\ LET v0 == femtoCollisions[iCol].fullV0s[iFemtoV0] IN
               IF v0.minimal /\ v0.cuts
               THEN outputTracks' =
                      outputTracks \o << ParticleRow("kV0Child"), ParticleRow("kV0Child"),
                                         ParticleRow("kV0") >>
               ELSE UNCHANGED outputTracks
  /\ UNCHANGED << iFemtoTrack, outputCollision, outputDebugTracks >>
  /\ femtoFrame

NextFemto ==
  \/ FemtoProcess
  \/ FemtoTrackLoop
  \/ FemtoV0Loop

SpecFemto == InitFemto /\ [][NextFemto]_vars

\* the indices (from 0) of the collision rows written by call i
CollisionRowsOf(i) ==
  { k \in 0..(Len(outputCollision) - 1) : outputCollision[k + 1].call = i }

\* the particle and debug rows written by call i
ParticleRowsOf(i) ==
  { outputTracks[k] : k \in { n \in 1..Len(outputTracks) : outputTracks[n].call = i } }
    \cup { outputDebugTracks[k] :
             k \in { n \in 1..Len(outputDebugTracks) : outputDebugTracks[n].call = i } }

\* C23: a process call for a collision that fails the basic event selection
\* writes no particle row and writes a collision row exactly when
\* ConfIsTrigger is set; a call for a collision that passes has written one
\* collision row before any of its particle rows, and every particle row of
\* the call carries the index of that collision row.
C23_RowsOfACollision ==
  \A i \in 1..Len(femtoCollisions) :
    /\ i > iCol => (CollisionRowsOf(i) = {} /\ ParticleRowsOf(i) = {})
    /\ (i < iCol /\ ~femtoCollisions[i].isSelected) =>
         /\ ParticleRowsOf(i) = {}
         /\ Cardinality(CollisionRowsOf(i)) = (IF ConfIsTrigger THEN 1 ELSE 0)
    /\ (i <= iCol /\ femtoCollisions[i].isSelected) =>
         /\ ParticleRowsOf(i) # {} => Cardinality(CollisionRowsOf(i)) = 1
         /\ (i < iCol \/ fpc # "process") => Cardinality(CollisionRowsOf(i)) = 1
         /\ \A r \in ParticleRowsOf(i) : r.collisionId \in CollisionRowsOf(i)

\* a trigger run has stored a rejected collision without particles and then a
\* selected collision with a track, its debug row and a V0 with its children
C23_RejectedThenSelectedCollision ==
  /\ ConfIsTrigger
  /\ fpc = "done"
  /\ \E i \in 1..Len(femtoCollisions), j \in 1..Len(femtoCollisions) :
       /\ i < j
       /\ ~femtoCollisions[i].isSelected
       /\ femtoCollisions[i].tracks # << >>
       /\ Cardinality(CollisionRowsOf(i)) = 1
       /\ femtoCollisions[j].isSelected
       /\ \E r \in ParticleRowsOf(j) : "type" \in DOMAIN r /\ r.type = "kV0"
       /\ \E r \in ParticleRowsOf(j) : "type" \notin DOMAIN r
       /\ \A r \in ParticleRowsOf(j) : r.collisionId = 1

====
